---- MODULE Spec2Model ----
(***************************************************************************)
(* A model of loxide, a Lox implementation in Rust: the bytecode virtual   *)
(* machine (bytecode/src/vm.rs, chunk.rs), the tree-walk interpreter       *)
(* (src/interpreter.rs, function.rs, class.rs, treewalk/src/resolver.rs),  *)
(* the two scanners (src/scanner.rs, bytecode/src/scanner.rs), the         *)
(* tree-walk parser (src/parser.rs) and the bytecode compiler              *)
(* (bytecode/src/compiler.rs).  Each part has its specification: SpecVm,   *)
(* Spec, SpecScan, SpecParse, SpecCompile; SpecInterpret is the REPL of    *)
(* the bytecode VM, SpecChunk a chunk filled by hand or by compile, and    *)
(* SpecResolve the resolver on what the parser built.                      *)
(*                                                                         *)
(* Numbers are f64 in the program.  The model keeps a Number as an exact   *)
(* fraction n/d (d = 0 encodes the infinities and NaN); rounding and the   *)
(* sign of zero are not modelled.                                          *)
(***************************************************************************)
EXTENDS Integers, Sequences, FiniteSets, TLC

VARIABLES
    \* ---- bytecode VM (bytecode/src/vm.rs) ----
    chunk,      \* the Chunk handed to Vm::run: [code, constants, lines]
    ip,         \* Vm.ip, a 0-based offset into chunk.code
    stack,      \* Vm.stack
    vmResult,   \* "none" while run loops; "ok", "runtime" once it returned; "panic";
                \* in the REPL also "new", "compiling" and "compile" (Err(Error::Compile))
    vmStdout,   \* values printed by println!
    vmStderr,   \* what runtime_error printed: [message, line, stack]
    executed,   \* the opcodes dispatched so far: [op, offset, before, after, outcome]
    build,      \* "debug" (overflow checks on) or "release" (usize arithmetic wraps)
    \* ---- tree-walk interpreter (src/interpreter.rs) ----
    envs,        \* the Environments allocated so far (Rc<RefCell<Environment>>), by reference
    insts,       \* the LoxInstances allocated so far (Rc<RefCell<LoxInstance>>), by reference
    environment, \* Interpreter.environment, a reference into envs
    locals,      \* Interpreter.locals: expression id -> depth
    scopeOf,     \* per resolved expression id, the scope the resolver found its name in
    written,     \* the log of define and assign: [act, name, v], oldest first
    stdout,      \* what the last run printed
    trace,       \* the evaluation events of the last run
    lastRun,     \* the program of the last run, how it ended, the interpreter when
                 \* its runtime error arose (raised) and when the run began (before)
    runs,        \* the programs run so far on this interpreter, oldest first
    \* ---- scanners (src/scanner.rs, bytecode/src/scanner.rs) ----
    source,      \* the source text, a sequence of characters
    scanner,     \* the tree-walk Scanner: [current, index, start, line, tokens, errors, ...]
    bscanner,    \* the bytecode Scanner: [pos, line, tokens, done]
    \* ---- tree-walk parser (src/parser.rs) ----
    tokens,      \* Parser.tokens
    parser,      \* the Parser and what parse has done: [state, p, statements, result]
    \* ---- bytecode compiler (bytecode/src/compiler.rs) ----
    compiler,    \* compile on source: [state, c, result], c the Parser and its chunk
    \* ---- the REPL of the bytecode VM (bytecode/src/main.rs) ----
    repl,        \* the results of the calls of Vm::interpret so far, oldest first
    calls        \* the calls of Chunk::write and Chunk::add_constant on a chunk
                 \* filled by hand, oldest first

vmVars == <<chunk, ip, stack, vmResult, vmStdout, vmStderr, executed, build>>

twVars == <<envs, insts, environment, locals, scopeOf, written, stdout, trace, lastRun, runs>>

scVars == <<source, scanner, bscanner>>

psVars == <<tokens, parser>>

cmVars == <<compiler, repl, calls>>

feVars == <<scVars, psVars, cmVars>>

vars == <<vmVars, twVars, feVars>>

\* no runtime error has arisen
NoRaise == [at |-> -1, globals |-> <<>>, logLen |-> 0, envs |-> 0, printed |-> 0]

\* no run has begun
NoRun == [outcome |-> "none", globals |-> <<>>, logLen |-> 0, environment |-> 0]

\* the tree-walk interpreter before Interpreter::new: nothing allocated
TwIdle ==
    /\ envs = <<>>
    /\ insts = <<>>
    /\ environment = 0
    /\ locals = <<>>
    /\ scopeOf = <<>>
    /\ written = <<>>
    /\ stdout = <<>>
    /\ trace = <<>>
    /\ lastRun = [program |-> "", outcome |-> "none", raised |-> NoRaise,
                  before |-> NoRun]
    /\ runs = <<>>

\* no source has been handed to a scanner
ScIdle ==
    /\ source = <<>>
    /\ scanner = <<>>
    /\ bscanner = <<>>

\* no token list has been handed to a parser
PsIdle ==
    /\ tokens = <<>>
    /\ parser = <<>>

\* compile has not been called
CmIdle == compiler = <<>> /\ repl = <<>> /\ calls = <<>>

FeIdle == ScIdle /\ PsIdle /\ CmIdle

(***************************************************************************)
(* Bounds                                                                  *)
(***************************************************************************)
MaxInstr == 3      \* instructions in a chunk handed to Vm::run
MaxRuns == 2       \* programs run on one tree-walk interpreter
MaxSource == 4     \* characters in a source handed to the scanners

(***************************************************************************)
(* bytecode/src/value.rs                                                   *)
(***************************************************************************)
Abs(x) == IF x < 0 THEN -x ELSE x

RECURSIVE Gcd(_, _)
Gcd(a, b) == IF b = 0 THEN a ELSE Gcd(b, a % b)

Sign(x) == IF x > 0 THEN 1 ELSE IF x < 0 THEN -1 ELSE 0

\* a Number from a fraction; d = 0 gives +inf (n > 0), -inf (n < 0), NaN (n = 0)
Frac(n, d) ==
    IF d = 0 THEN [t |-> "num", n |-> Sign(n), d |-> 0]
    ELSE LET g == Gcd(Abs(n), Abs(d))
             s == IF d < 0 THEN -1 ELSE 1
         IN  [t |-> "num", n |-> (s * n) \div g, d |-> (s * d) \div g]

Number(n) == [t |-> "num", n |-> n, d |-> 1]
Boolean(b) == [t |-> "bool", b |-> b]
Nil == [t |-> "nil"]

IsNumber(v) == v.t = "num"
IsNaN(v) == v.d = 0 /\ v.n = 0
IsInf(v) == v.d = 0 /\ v.n # 0

\* the panic! arm of the operator impls: an operand that is no Number
PanicValue == [t |-> "panic"]

\* impl ops::Add for Value
ValueAdd(a, b) ==
    IF ~(IsNumber(a) /\ IsNumber(b)) THEN PanicValue
    ELSE IF IsNaN(a) \/ IsNaN(b) THEN Frac(0, 0)
    ELSE IF IsInf(a) /\ IsInf(b) THEN (IF a.n = b.n THEN a ELSE Frac(0, 0))
    ELSE IF IsInf(a) THEN a
    ELSE IF IsInf(b) THEN b
    ELSE Frac(a.n * b.d + b.n * a.d, a.d * b.d)

\* impl ops::Neg for Value
ValueNeg(a) ==
    IF ~IsNumber(a) THEN PanicValue ELSE [t |-> "num", n |-> -a.n, d |-> a.d]

\* impl ops::Sub for Value
ValueSub(a, b) ==
    IF ~(IsNumber(a) /\ IsNumber(b)) THEN PanicValue ELSE ValueAdd(a, ValueNeg(b))

\* impl ops::Mul for Value
ValueMul(a, b) ==
    IF ~(IsNumber(a) /\ IsNumber(b)) THEN PanicValue
    ELSE IF IsNaN(a) \/ IsNaN(b) THEN Frac(0, 0)
    ELSE IF IsInf(a) \/ IsInf(b) THEN Frac(Sign(a.n) * Sign(b.n), 0)
    ELSE Frac(a.n * b.n, a.d * b.d)

\* impl ops::Div for Value
ValueDiv(a, b) ==
    IF ~(IsNumber(a) /\ IsNumber(b)) THEN PanicValue
    ELSE IF IsNaN(a) \/ IsNaN(b) THEN Frac(0, 0)
    ELSE IF IsInf(a) THEN (IF IsInf(b) THEN Frac(0, 0)
                           ELSE Frac(a.n * (IF b.n < 0 THEN -1 ELSE 1), 0))
    ELSE IF IsInf(b) THEN Number(0)
    ELSE Frac(a.n * b.d, a.d * b.n)

\* a < b on two Numbers (IEEE: false when either is NaN)
NumberLess(a, b) ==
    IF IsNaN(a) \/ IsNaN(b) THEN FALSE
    ELSE IF IsInf(a) THEN a.n < 0 /\ ~(IsInf(b) /\ b.n < 0)
    ELSE IF IsInf(b) THEN b.n > 0
    ELSE a.n * b.d < b.n * a.d

\* a == b on Values: structural, Nil == Nil, mixed kinds unequal
ValueEq(a, b) ==
    CASE a.t = "bool" /\ b.t = "bool" -> a.b = b.b
      [] a.t = "nil" /\ b.t = "nil" -> TRUE
      [] a.t = "num" /\ b.t = "num" -> ~IsNaN(a) /\ a.n = b.n /\ a.d = b.d
      [] OTHER -> FALSE

\* Value::is_falsey: Nil and false
IsFalsey(v) == v.t = "nil" \/ (v.t = "bool" /\ ~v.b)

(***************************************************************************)
(* bytecode/src/chunk.rs: OpCode, #[repr(u8)] numbered from Constant = 0   *)
(***************************************************************************)
OpConstant == 0
OpNil == 1
OpTrue == 2
OpFalse == 3
OpEqual == 4
OpGreater == 5
OpLess == 6
OpAdd == 7
OpSubtract == 8
OpMultiply == 9
OpDivide == 10
OpNot == 11
OpNegate == 12
OpReturn == 13

\* OpCode::try_from(byte) succeeds on these bytes only
ValidOpCodes == OpConstant..OpReturn

EmptyChunk == [code |-> <<>>, constants |-> <<>>, lines |-> <<>>]

\* mutant: write pushes the byte and no line
ChunkWriteNoLine(c, byte, line) ==
    [c EXCEPT !.code = Append(@, byte)]

\* Chunk::write
ChunkWrite(c, byte, line) ==
    [c EXCEPT !.code = Append(@, byte), !.lines = Append(@, line)]

\* Chunk::add_constant: the new chunk and the u8 index returned
ChunkAddConstant(c, constant) ==
    [chunk |-> [c EXCEPT !.constants = Append(@, constant)],
     index |-> Len(c.constants) % 256]

(***************************************************************************)
(* The chunks Vm::run is checked on: up to MaxInstr instructions, each an  *)
(* opcode byte (Constant with its operand byte), written with Chunk::write *)
(* one source line per instruction as emit_bytes does.  The operand 2 is   *)
(* outside the two-entry constant pool and 14 is no opcode.                *)
(***************************************************************************)
InvalidByte == 14

PoolValues == <<Number(2), Number(0)>>

Instructions ==
    {<<OpConstant, k>> : k \in 0..Len(PoolValues)}
        \cup {<<op>> : op \in (ValidOpCodes \ {OpConstant}) \cup {InvalidByte}}

RECURSIVE WriteBytes(_, _, _)
WriteBytes(c, bytes, line) ==
    IF bytes = <<>> THEN c
    ELSE WriteBytes(ChunkWrite(c, Head(bytes), line), Tail(bytes), line)

RECURSIVE AddConstants(_, _)
AddConstants(c, values) ==
    IF values = <<>> THEN c
    ELSE AddConstants(ChunkAddConstant(c, Head(values)).chunk, Tail(values))

RECURSIVE WriteInstructions(_, _, _)
WriteInstructions(c, instrs, line) ==
    IF instrs = <<>> THEN c
    ELSE WriteInstructions(WriteBytes(c, Head(instrs), line), Tail(instrs), line + 1)

ChunkOf(instrs) == WriteInstructions(AddConstants(EmptyChunk, PoolValues), instrs, 1)

InstrSeqs == UNION {[1..n -> Instructions] : n \in 0..MaxInstr}

(***************************************************************************)
(* bytecode/src/vm.rs                                                      *)
(***************************************************************************)
\* Vm::peek: self.stack.get(self.stack.len() - 1 - distance).  The index is
\* a usize: when it underflows, a debug build panics and a release build
\* wraps to an index past the end, for which get returns None.
Peek(s, distance) ==
    IF Len(s) >= 1 + distance
    THEN [kind |-> "some", v |-> s[Len(s) - distance]]
    ELSE IF build = "debug" THEN [kind |-> "panic"] ELSE [kind |-> "none"]

PeekIsNumber(p) == p.kind = "some" /\ IsNumber(p.v)

\* Vm::runtime_error: the line is chunk.lines()[self.ip - 1]
ErrorLine(c, ipNow) == c.lines[(ipNow - 1) + 1]

Logged(op, outcome, after) ==
    Append(executed, [op |-> op, offset |-> ip, stack |-> stack,
                      before |-> Len(stack), after |-> after, outcome |-> outcome])

\* the loop head: read_byte fetches chunk.code()[ip] and advances ip
Fetch(op) ==
    /\ vmResult = "none"
    /\ ip < Len(chunk.code)
    /\ chunk.code[ip + 1] = op

Panic(op) ==
    /\ vmResult' = "panic"
    /\ executed' = Logged(op, "panic", Len(stack))
    /\ UNCHANGED <<stack, vmStdout, vmStderr>>

\* mutant: runtime_error without reset_stack
RuntimeErrorNoReset(op, message) ==
    /\ vmStderr' = Append(vmStderr, [message |-> message,
                                     line |-> ErrorLine(chunk, ip'),
                                     stack |-> stack])
    /\ stack' = stack
    /\ vmResult' = "runtime"
    /\ executed' = Logged(op, "runtime", Len(stack))
    /\ UNCHANGED vmStdout

\* runtime_error(message, chunk); return Err(Error::Runtime)
RuntimeError(op, message) ==
    /\ vmStderr' = Append(vmStderr, [message |-> message,
                                     line |-> ErrorLine(chunk, ip'),
                                     stack |-> stack])
    /\ stack' = <<>>
    /\ vmResult' = "runtime"
    /\ executed' = Logged(op, "runtime", 0)
    /\ UNCHANGED vmStdout

Continue(op, newStack) ==
    /\ stack' = newStack
    /\ executed' = Logged(op, "done", Len(newStack))
    /\ UNCHANGED <<vmResult, vmStdout, vmStderr>>

\* mutant: the second pop is missing
Pop2PushOnePop(s, v) == Append(SubSeq(s, 1, Len(s) - 1), v)

\* let b = pop(); let a = pop(); push(v)
Pop2Push(s, v) == Append(SubSeq(s, 1, Len(s) - 2), v)

\* let value = pop(); push(v)
Pop1Push(s, v) == Append(SubSeq(s, 1, Len(s) - 1), v)

\* the operands the two pops yield: b first, then a
PoppedB(s) == s[Len(s)]
PoppedA(s) == s[Len(s) - 1]

\* push the result of an operator impl, which panics on a non-Number operand
ContinueWith(op, newStack, v) ==
    IF v.t = "panic" THEN Panic(op) ELSE Continue(op, newStack)

\* OpCode::Constant
StepConstant ==
    /\ Fetch(OpConstant)
    /\ UNCHANGED <<chunk, build, twVars, feVars>>
    /\ IF ip + 1 < Len(chunk.code) /\ chunk.code[ip + 2] < Len(chunk.constants)
       THEN /\ ip' = ip + 2
            /\ Continue(OpConstant, Append(stack, chunk.constants[chunk.code[ip + 2] + 1]))
       ELSE /\ ip' = ip + 2
            /\ Panic(OpConstant)

LiteralOf(op) ==
    CASE op = OpNil -> Nil
      [] op = OpTrue -> Boolean(TRUE)
      [] op = OpFalse -> Boolean(FALSE)

\* OpCode::Nil, OpCode::True, OpCode::False
StepLiteral ==
    \E op \in {OpNil, OpTrue, OpFalse} :
        /\ Fetch(op)
        /\ ip' = ip + 1
        /\ Continue(op, Append(stack, LiteralOf(op)))
        /\ UNCHANGED <<chunk, build, twVars, feVars>>

\* OpCode::Equal: two pops with expect, then push
StepEqual ==
    /\ Fetch(OpEqual)
    /\ ip' = ip + 1
    /\ UNCHANGED <<chunk, build, twVars, feVars>>
    /\ IF Len(stack) >= 2
       THEN Continue(OpEqual,
                Pop2Push(stack, Boolean(ValueEq(PoppedA(stack), PoppedB(stack)))))
       ELSE Panic(OpEqual)

CmpResult(op, a, b) ==
    IF op = OpGreater THEN Boolean(NumberLess(b, a)) ELSE Boolean(NumberLess(a, b))

\* cmp_op!: OpCode::Greater, OpCode::Less
StepCmp ==
    \E op \in {OpGreater, OpLess} :
        /\ Fetch(op)
        /\ ip' = ip + 1
        /\ UNCHANGED <<chunk, build, twVars, feVars>>
        /\ LET p0 == Peek(stack, 0)
               p1 == Peek(stack, 1)
           IN  IF p0.kind = "panic" \/ p1.kind = "panic" THEN Panic(op)
               ELSE IF PeekIsNumber(p0) /\ PeekIsNumber(p1)
               THEN Continue(op, Pop2Push(stack,
                        CmpResult(op, PoppedA(stack), PoppedB(stack))))
               ELSE RuntimeError(op, "Operands must be numbers.")

ArithResult(op, a, b) ==
    CASE op = OpAdd -> ValueAdd(a, b)
      [] op = OpSubtract -> ValueSub(a, b)
      [] op = OpMultiply -> ValueMul(a, b)
      [] op = OpDivide -> ValueDiv(a, b)

\* binary_op!: OpCode::Add, Subtract, Multiply, Divide
StepBinary ==
    \E op \in {OpAdd, OpSubtract, OpMultiply, OpDivide} :
        /\ Fetch(op)
        /\ ip' = ip + 1
        /\ UNCHANGED <<chunk, build, twVars, feVars>>
        /\ LET p0 == Peek(stack, 0)
               p1 == Peek(stack, 1)
           IN  IF p0.kind = "panic" \/ p1.kind = "panic" THEN Panic(op)
               ELSE IF PeekIsNumber(p0) /\ PeekIsNumber(p1)
               THEN LET v == ArithResult(op, PoppedA(stack), PoppedB(stack))
                    IN  ContinueWith(op, Pop2Push(stack, v), v)
               ELSE RuntimeError(op, "Operands must be numbers.")

\* OpCode::Not
StepNot ==
    /\ Fetch(OpNot)
    /\ ip' = ip + 1
    /\ UNCHANGED <<chunk, build, twVars, feVars>>
    /\ IF Len(stack) >= 1
       THEN Continue(OpNot, Pop1Push(stack, Boolean(IsFalsey(PoppedB(stack)))))
       ELSE Panic(OpNot)

\* OpCode::Negate
StepNegate ==
    /\ Fetch(OpNegate)
    /\ ip' = ip + 1
    /\ UNCHANGED <<chunk, build, twVars, feVars>>
    /\ LET p0 == Peek(stack, 0)
       IN  IF p0.kind = "panic" THEN Panic(OpNegate)
           ELSE IF PeekIsNumber(p0)
           THEN LET v == ValueNeg(PoppedB(stack))
                IN  ContinueWith(OpNegate, Pop1Push(stack, v), v)
           ELSE RuntimeError(OpNegate, "Operand must be a number.")

\* mutant: Return prints the top of the stack and leaves it there
StepReturnNoPop ==
    /\ Fetch(OpReturn)
    /\ ip' = ip + 1
    /\ UNCHANGED <<chunk, build, vmStderr, twVars, feVars>>
    /\ vmResult' = "ok"
    /\ IF Len(stack) >= 1
       THEN /\ vmStdout' = Append(vmStdout, stack[Len(stack)])
            /\ stack' = stack
       ELSE UNCHANGED <<vmStdout, stack>>
    /\ executed' = Logged(OpReturn, "done", Len(stack'))

\* OpCode::Return
StepReturn ==
    /\ Fetch(OpReturn)
    /\ ip' = ip + 1
    /\ UNCHANGED <<chunk, build, vmStderr, twVars, feVars>>
    /\ vmResult' = "ok"
    /\ IF Len(stack) >= 1
       THEN /\ vmStdout' = Append(vmStdout, stack[Len(stack)])
            /\ stack' = SubSeq(stack, 1, Len(stack) - 1)
       ELSE UNCHANGED <<vmStdout, stack>>
    /\ executed' = Logged(OpReturn, "done", Len(stack'))

\* OpCode::try_from(instruction).map_err(|_| Error::Runtime)?
StepInvalid ==
    /\ vmResult = "none"
    /\ ip < Len(chunk.code)
    /\ chunk.code[ip + 1] \notin ValidOpCodes
    /\ ip' = ip + 1
    /\ vmResult' = "runtime"
    /\ executed' = Logged(chunk.code[ip + 1], "invalid", Len(stack))
    /\ UNCHANGED <<chunk, build, stack, vmStdout, vmStderr, twVars, feVars>>

\* read_byte past the end of the code: chunk.code()[ip] is out of bounds
StepPastEnd ==
    /\ vmResult = "none"
    /\ ip >= Len(chunk.code)
    /\ ip' = ip + 1
    /\ vmResult' = "panic"
    /\ UNCHANGED <<chunk, build, stack, vmStdout, vmStderr, executed, twVars, feVars>>

\* Vm::new and the part of Vm::interpret after compile: ip = 0, run(chunk)
InitVm ==
    /\ chunk \in {ChunkOf(instrs) : instrs \in InstrSeqs}
    /\ build \in {"debug", "release"}
    /\ ip = 0
    /\ stack = <<>>
    /\ vmResult = "none"
    /\ vmStdout = <<>>
    /\ vmStderr = <<>>
    /\ executed = <<>>
    /\ TwIdle
    /\ FeIdle

NextVm ==
    \/ StepConstant
    \/ StepLiteral
    \/ StepEqual
    \/ StepCmp
    \/ StepBinary
    \/ StepNot
    \/ StepNegate
    \/ StepReturn
    \/ StepInvalid
    \/ StepPastEnd

SpecVm == InitVm /\ [][NextVm]_vars

(***************************************************************************)
(* Tree-walk interpreter: values (treewalk/src/value.rs)                   *)
(***************************************************************************)
String(s) == [t |-> "str", s |-> s]

\* Value::Callable(Box<LoxFunction>): name, params and body of the declaration,
\* the closure by reference, is_initializer.  sid is the declaration's
\* identity, owner the class declaration of a method (0 for a function) and
\* ctx the class, superclass and receiver the body is lexically written under.
LoxFunction(decl, closure, isInitializer, owner, ctx) ==
    [t |-> "fn", name |-> decl.name, params |-> decl.params, body |-> decl.body,
     closure |-> closure, is_initializer |-> isInitializer,
     sid |-> decl.sid, owner |-> owner, ctx |-> ctx]

\* Value::Callable(Box<LoxClass>): class.rs keeps name and methods;
\* superclass is what interpreter.rs passes to LoxClass::new
LoxClass(name, superclass, methods, sid) ==
    [t |-> "class", name |-> name, superclass |-> superclass, methods |-> methods,
     sid |-> sid]

\* Value::Callable(Box<Clock>)
Clock == [t |-> "native"]

\* Value::Instance(Rc<RefCell<LoxInstance>>)
Instance(ref) == [t |-> "inst", ref |-> ref]

IsCallable(v) == v.t \in {"fn", "class", "native"}

\* impl PartialEq for Value (treewalk/src/value.rs): Boolean, Nil, Number
\* and String by content; every other pair, Callable and Instance included,
\* is unequal
TwValueEq(a, b) ==
    CASE a.t = "bool" /\ b.t = "bool" -> a.b = b.b
      [] a.t = "nil" /\ b.t = "nil" -> TRUE
      [] a.t = "num" /\ b.t = "num" -> ~IsNaN(a) /\ a.n = b.n /\ a.d = b.d
      [] a.t = "str" /\ b.t = "str" -> a.s = b.s
      [] OTHER -> FALSE

\* is_truthy
IsTruthy(v) ==
    CASE v.t = "nil" -> FALSE
      [] v.t = "bool" -> v.b
      [] OTHER -> TRUE

(***************************************************************************)
(* Results of evaluate / execute: Ok(value), Err(Error::Runtime),          *)
(* Err(Error::Return) and a panic of the process.  st is the interpreter   *)
(* state after the evaluation.                                             *)
(***************************************************************************)
Ok(st, v) == [st |-> st, kind |-> "ok", v |-> v, message |-> "", line |-> 0]

\* Err(Error::Runtime { message, line }); st.raised keeps what the interpreter
\* was when the first of them arose
RuntimeErr(st, message, line) ==
    [st |-> IF st.raised.at >= 0 THEN st
            ELSE [st EXCEPT !.raised = [at |-> Len(st.trace),
                                        globals |-> st.envs[1].values,
                                        logLen |-> Len(st.written),
                                        envs |-> Len(st.envs),
                                        printed |-> Len(st.stdout)]],
     kind |-> "runtime", v |-> Nil, message |-> message, line |-> line]

ReturnErr(st, v) == [st |-> st, kind |-> "return", v |-> v, message |-> "", line |-> 0]

Panicked(st, message) ==
    [st |-> st, kind |-> "panic", v |-> Nil, message |-> message, line |-> 0]

Emit(st, event) == [st EXCEPT !.trace = Append(@, event)]

\* the element of a set of one: {e : x \in {v}} is e with x bound to the value
\* of v, computed once
Only(S) == CHOOSE y \in S : TRUE

(***************************************************************************)
(* Environment (src/interpreter.rs)                                        *)
(***************************************************************************)
None == [k |-> "None"]

NoEnv == 0

GlobalsRef == 1

EmptyMap == [name \in {} |-> Nil]

GlobalTag == [kind |-> "global", sid |-> 0]

\* Environment::wrap: a new environment is allocated; its reference is the
\* new length of envs.  tag names the scope it is created for and act the
\* activation of that scope, which is the environment's own reference.
Wrap(st, enclosing, tag) ==
    [st EXCEPT !.envs = Append(@, [enclosing |-> enclosing, values |-> EmptyMap,
                                   tag |-> tag, act |-> Len(st.envs) + 1])]

LastEnv(st) == Len(st.envs)

\* Environment::define
Define(st, env, name, value) ==
    [st EXCEPT !.envs[env].values = (name :> value) @@ @,
               !.written = Append(@, [act |-> st.envs[env].act, name |-> name,
                                      v |-> value])]

\* Environment::ancestor with the loop run once too often
AncestorTooFar(st, env, distance) ==
    LET RECURSIVE Up(_, _)
        Up(e, n) == IF e = NoEnv \/ n = 0 THEN e ELSE Up(st.envs[e].enclosing, n - 1)
    IN  Up(st.envs[env].enclosing, IF distance >= 1 THEN distance ELSE 0)

\* Environment::ancestor: NoEnv stands for the panic of expect
Ancestor(st, env, distance) ==
    LET RECURSIVE Up(_, _)
        Up(e, n) == IF e = NoEnv \/ n = 0 THEN e ELSE Up(st.envs[e].enclosing, n - 1)
    IN  Up(st.envs[env].enclosing, IF distance >= 1 THEN distance - 1 ELSE 0)

\* Environment::get: [found, v, env]
RECURSIVE Get(_, _, _)
Get(st, env, name) ==
    IF name \in DOMAIN st.envs[env].values
    THEN [found |-> TRUE, v |-> st.envs[env].values[name], env |-> env]
    ELSE IF st.envs[env].enclosing # NoEnv
    THEN Get(st, st.envs[env].enclosing, name)
    ELSE [found |-> FALSE, v |-> Nil, env |-> NoEnv]

\* Environment::assign: [found, st, env]
RECURSIVE Assign(_, _, _, _)
Assign(st, env, name, value) ==
    IF name \in DOMAIN st.envs[env].values
    THEN [found |-> TRUE, st |-> Define(st, env, name, value), env |-> env]
    ELSE IF st.envs[env].enclosing # NoEnv
    THEN Assign(st, st.envs[env].enclosing, name, value)
    ELSE [found |-> FALSE, st |-> st, env |-> NoEnv]

\* Environment::get_at: env = -1 in the result stands for ancestor's panic
GetAt(st, env, distance, name) ==
    IF distance = 0 THEN Get(st, env, name)
    ELSE Only({ IF a = NoEnv THEN [found |-> FALSE, v |-> Nil, env |-> -1]
                ELSE Get(st, a, name)
                : a \in {Ancestor(st, env, distance)} })

\* Environment::assign_at
AssignAt(st, env, distance, name, value) ==
    IF distance = 0 THEN Assign(st, env, name, value)
    ELSE Only({ IF a = NoEnv THEN [found |-> FALSE, st |-> st, env |-> -1]
                ELSE Assign(st, a, name, value)
                : a \in {Ancestor(st, env, distance)} })

UndefinedVariable(name) == "Undefined variable '" \o name \o "'."

\* the environment d enclosing links away from env (NoEnv past the globals)
RECURSIVE Hops(_, _, _)
Hops(st, env, d) ==
    IF d = 0 \/ env = NoEnv THEN env ELSE Hops(st, st.envs[env].enclosing, d - 1)

(***************************************************************************)
(* Resolver (treewalk/src/resolver.rs).  rs is the Resolver: scopes,       *)
(* current_function, current_class, had_error, and the side-table it       *)
(* fills by Interpreter::resolve.  Every scope carries the tag of the      *)
(* statement that opens it; scopeOf remembers, per resolved expression,    *)
(* the tag of the scope resolve_local found the name in.                   *)
(***************************************************************************)
NewResolver(interpreterLocals, interpreterScopeOf) ==
    [scopes |-> <<>>, current_function |-> "None", current_class |-> "None",
     had_error |-> FALSE, errors |-> <<>>,
     locals |-> interpreterLocals, scopeOf |-> interpreterScopeOf]

\* mutant: error_token without had_error = true
ResolveErrorNoFlag(rs, message) == [rs EXCEPT !.errors = Append(@, message)]

\* error_token followed by had_error = true
ResolveError(rs, message) ==
    [rs EXCEPT !.had_error = TRUE, !.errors = Append(@, message)]

\* begin_scope
BeginScope(rs, tag) ==
    [rs EXCEPT !.scopes = Append(@, [names |-> [n \in {} |-> FALSE], tag |-> tag])]

\* end_scope
EndScope(rs) == [rs EXCEPT !.scopes = SubSeq(@, 1, Len(@) - 1)]

\* scope.insert(name, ready) on the innermost scope, if there is one
ScopeInsert(rs, name, ready) ==
    IF rs.scopes = <<>> THEN rs
    ELSE [rs EXCEPT !.scopes[Len(rs.scopes)].names = (name :> ready) @@ @]

\* mutant: declare inserts the name without looking for it
DeclareNoCheck(rs, name) ==
    IF rs.scopes = <<>> THEN rs ELSE ScopeInsert(rs, name, FALSE)

\* declare
Declare(rs, name) ==
    IF rs.scopes = <<>> THEN rs
    ELSE LET dup == name \in DOMAIN rs.scopes[Len(rs.scopes)].names
             r1 == IF dup
                   THEN ResolveError(rs, "Already a variable with this name in this scope.")
                   ELSE rs
         IN  ScopeInsert(r1, name, FALSE)

\* define
ResolverDefine(rs, name) == ScopeInsert(rs, name, TRUE)

\* resolve_local: the innermost scope holding the name, counted from the
\* innermost one; Interpreter::resolve stores the count
ResolveLocal(rs, id, name) ==
    LET holding == {i \in 1..Len(rs.scopes) : name \in DOMAIN rs.scopes[i].names}
    IN  IF holding = {} THEN rs
        ELSE LET i == CHOOSE j \in holding : \A h \in holding : h <= j
             IN  [rs EXCEPT !.locals = (id :> (Len(rs.scopes) - i)) @@ @,
                            !.scopeOf = (id :> rs.scopes[i].tag) @@ @]

RECURSIVE ResolveExpr(_, _)
RECURSIVE ResolveExprs(_, _, _)
RECURSIVE ResolveStmt(_, _)
RECURSIVE ResolveStatementsFrom(_, _, _, _)
RECURSIVE ResolveMethods(_, _, _)

\* a Resolver whose statements so far are resolved
Resolved(rs) == rs.had_error \in BOOLEAN

\* resolve_statements: the loop over statements lo..hi, in order; the first
\* half is resolved before the second is looked at
ResolveStatementsFrom(rs, statements, lo, hi) ==
    IF lo > hi THEN rs
    ELSE IF lo = hi THEN ResolveStmt(rs, statements[lo])
    ELSE LET mid == (lo + hi) \div 2
             r == ResolveStatementsFrom(rs, statements, lo, mid)
         IN  IF Resolved(r) THEN ResolveStatementsFrom(r, statements, mid + 1, hi)
             ELSE r

ResolveStatements(rs, statements) ==
    ResolveStatementsFrom(rs, statements, 1, Len(statements))

\* the loop over a call's arguments
ResolveExprs(rs, exprs, i) ==
    IF i > Len(exprs) THEN rs
    ELSE ResolveExprs(ResolveExpr(rs, exprs[i]), exprs, i + 1)

RECURSIVE DeclareParams(_, _, _)
DeclareParams(rs, params, i) ==
    IF i > Len(params) THEN rs
    ELSE DeclareParams(ResolverDefine(Declare(rs, params[i]), params[i]), params, i + 1)

\* resolve_function
ResolveFunction(rs, decl, kind) ==
    LET enclosing_function == rs.current_function
        r1 == BeginScope([rs EXCEPT !.current_function = kind],
                         [kind |-> "fun", sid |-> decl.sid])
        r2 == DeclareParams(r1, decl.params, 1)
        r3 == ResolveStatements(r2, decl.body)
    IN  [EndScope(r3) EXCEPT !.current_function = enclosing_function]

\* resolve_expr
ResolveExpr(rs, expr) ==
    CASE expr.k = "Assign" ->
            ResolveLocal(ResolveExpr(rs, expr.value), expr.id, expr.name)
      [] expr.k \in {"Binary", "Logical"} ->
            ResolveExpr(ResolveExpr(rs, expr.left), expr.right)
      [] expr.k = "Call" ->
            ResolveExprs(ResolveExpr(rs, expr.callee), expr.arguments, 1)
      [] expr.k = "Get" -> ResolveExpr(rs, expr.object)
      [] expr.k = "Grouping" -> ResolveExpr(rs, expr.expr)
      [] expr.k = "Literal" -> rs
      [] expr.k = "Set" -> ResolveExpr(ResolveExpr(rs, expr.value), expr.object)
      [] expr.k = "Super" ->
            IF rs.current_class = "None"
            THEN ResolveError(rs, "Can't use 'super' outside of a class.")
            ELSE IF rs.current_class = "Class"
            THEN ResolveError(rs, "Can't use 'super' in a class with no superclass.")
            ELSE ResolveLocal(rs, expr.id, "super")
      [] expr.k = "This" ->
            LET r1 == IF rs.current_class = "None"
                      THEN ResolveError(rs, "Can't use 'this' outside of a class.")
                      ELSE rs
            IN  ResolveLocal(r1, expr.id, "this")
      [] expr.k = "Unary" -> ResolveExpr(rs, expr.right)
      [] expr.k = "Variable" ->
            LET own == /\ rs.scopes # <<>>
                       /\ expr.name \in DOMAIN rs.scopes[Len(rs.scopes)].names
                       /\ ~rs.scopes[Len(rs.scopes)].names[expr.name]
                r1 == IF own
                      THEN ResolveError(rs, "Can't read local variable in its own initializer.")
                      ELSE rs
            IN  ResolveLocal(r1, expr.id, expr.name)

\* the loop over a class's methods
ResolveMethods(rs, methods, i) ==
    IF i > Len(methods) THEN rs
    ELSE ResolveMethods(
            ResolveFunction(rs, methods[i],
                            IF methods[i].name = "init" THEN "Initializer" ELSE "Method"),
            methods, i + 1)

\* resolve_stmt
ResolveStmt(rs, stmt) ==
    CASE stmt.k = "Block" ->
            EndScope(ResolveStatements(
                BeginScope(rs, [kind |-> "block", sid |-> stmt.sid]), stmt.statements))
      [] stmt.k = "Class" ->
            LET enclosing_class == rs.current_class
                r1 == ResolverDefine(Declare([rs EXCEPT !.current_class = "Class"],
                                             stmt.name), stmt.name)
                has_superclass == stmt.superclass.k # "None"
                r2 == IF ~has_superclass THEN r1
                      ELSE LET a == [r1 EXCEPT !.current_class = "Subclass"]
                               b == IF stmt.name = stmt.superclass.name
                                    THEN ResolveError(a, "A class can't inherit from itself.")
                                    ELSE a
                               c == ResolveExpr(b, stmt.superclass)
                           IN  ScopeInsert(BeginScope(c, [kind |-> "super",
                                                          sid |-> stmt.sid]),
                                           "super", TRUE)
                r3 == ScopeInsert(BeginScope(r2, [kind |-> "this", sid |-> stmt.sid]),
                                  "this", TRUE)
                r4 == EndScope(ResolveMethods(r3, stmt.methods, 1))
                r5 == IF has_superclass THEN EndScope(r4) ELSE r4
            IN  [r5 EXCEPT !.current_class = enclosing_class]
      [] stmt.k \in {"Expression", "Print"} -> ResolveExpr(rs, stmt.expr)
      [] stmt.k = "Function" ->
            ResolveFunction(ResolverDefine(Declare(rs, stmt.name), stmt.name),
                            stmt, "Function")
      [] stmt.k = "If" ->
            LET r1 == ResolveStmt(ResolveExpr(rs, stmt.condition), stmt.then_branch)
            IN  IF stmt.else_branch.k # "None" THEN ResolveStmt(r1, stmt.else_branch)
                ELSE r1
      [] stmt.k = "Return" ->
            LET r1 == IF rs.current_function = "None"
                      THEN ResolveError(rs, "Can't return from top-level code.")
                      ELSE rs
            IN  IF stmt.value.k = "None" THEN r1
                ELSE ResolveExpr(
                        IF rs.current_function = "Initializer"
                        THEN ResolveError(r1, "Can't return a value from an initializer.")
                        ELSE r1,
                        stmt.value)
      [] stmt.k = "Var" ->
            LET r1 == Declare(rs, stmt.name)
                r2 == IF stmt.initializer.k # "None" THEN ResolveExpr(r1, stmt.initializer)
                      ELSE r1
            IN  ResolverDefine(r2, stmt.name)
      [] stmt.k = "While" ->
            ResolveStmt(ResolveExpr(rs, stmt.condition), stmt.body)

(***************************************************************************)
(* impl fmt::Display for Value (treewalk/src/value.rs), LoxFunction,       *)
(* LoxClass, LoxInstance and Clock                                         *)
(***************************************************************************)
\* the digits of the fraction r/d after the decimal point, rounded down
\* after left digits and with no trailing zeros
RECURSIVE FractionDigits(_, _, _)
FractionDigits(r, d, left) ==
    IF r = 0 \/ left = 0 THEN ""
    ELSE ToString((r * 10) \div d) \o FractionDigits((r * 10) % d, d, left - 1)

\* {n} of an f64: no decimal point on a whole number
ShowNumber(v) ==
    IF v.d = 0 THEN (IF v.n > 0 THEN "inf" ELSE IF v.n < 0 THEN "-inf" ELSE "NaN")
    ELSE LET a == Abs(v.n)
             whole == ToString(a \div v.d)
             digits == FractionDigits(a % v.d, v.d, 16)
         IN  (IF v.n < 0 THEN "-" ELSE "") \o whole
                \o (IF digits = "" THEN "" ELSE "." \o digits)

Show(st, v) ==
    CASE v.t = "bool" -> IF v.b THEN "true" ELSE "false"
      [] v.t = "nil" -> "nil"
      [] v.t = "num" -> ShowNumber(v)
      [] v.t = "str" -> v.s
      [] v.t = "fn" -> "<fn " \o v.name \o ">"
      [] v.t = "class" -> "<class " \o v.name \o ">"
      [] v.t = "native" -> "<native fn>"
      [] v.t = "inst" -> "<inst " \o st.insts[v.ref].class.name \o ">"

(***************************************************************************)
(* src/function.rs and src/class.rs                                        *)
(***************************************************************************)
NoMethod == [t |-> "none"]

\* the lexical context of code outside every class
NoCtx == [cls |-> 0, super |-> NoMethod, this |-> 0]

\* LoxClass::find_method: the class's own methods
FindMethod(class, name) ==
    IF name \in DOMAIN class.methods THEN class.methods[name] ELSE NoMethod

\* Callable::arity of LoxFunction, LoxClass and Clock
Arity(callee) ==
    CASE callee.t = "fn" -> Len(callee.params)
      [] callee.t = "class" ->
            LET initializer == FindMethod(callee, "init")
            IN  IF initializer.t = "fn" THEN Len(initializer.params) ELSE 0
      [] callee.t = "native" -> 0

\* LoxFunction::bind: [st, fn]
Bind(st, fn, ref) ==
    LET s1 == Wrap(st, fn.closure, [kind |-> "this", sid |-> fn.owner])
        environment_ == LastEnv(s1)
        s2 == Define(s1, environment_, "this", Instance(ref))
    IN  [st |-> s2,
         fn |-> [fn EXCEPT !.closure = environment_, !.ctx.this = ref]]

\* LoxInstance::new
NewInstance(st, class) ==
    [st EXCEPT !.insts = Append(@, [class |-> class, fields |-> EmptyMap])]

\* LoxInstance::set
InstanceSet(st, ref, name, value) ==
    [st EXCEPT !.insts[ref].fields = (name :> value) @@ @]

UndefinedProperty(name) == "Undefined property '" \o name \o "'."

\* mutant: get looks for a method before it looks at the fields
InstanceGetMethodFirst(st, ref, name, line) ==
    LET method == FindMethod(st.insts[ref].class, name)
    IN  IF method.t = "fn"
        THEN Only({Ok(b.st, b.fn) : b \in {Bind(st, method, ref)}})
        ELSE IF name \in DOMAIN st.insts[ref].fields
        THEN Ok(st, st.insts[ref].fields[name])
        ELSE RuntimeErr(st, UndefinedProperty(name), line)

\* LoxInstance::get
InstanceGet(st, ref, name, line) ==
    IF name \in DOMAIN st.insts[ref].fields
    THEN Ok(st, st.insts[ref].fields[name])
    ELSE LET method == FindMethod(st.insts[ref].class, name)
         IN  IF method.t = "fn"
             THEN Only({Ok(b.st, b.fn) : b \in {Bind(st, method, ref)}})
             ELSE RuntimeErr(st, UndefinedProperty(name), line)

\* LoxFunction::call without the Err(Error::Return) arm
CallNoIntercept(fn, r) ==
    IF r.kind = "ok"
    THEN (IF ~fn.is_initializer THEN Ok(r.st, Nil)
          ELSE LET this == Get(r.st, fn.closure, "this")
               IN  IF this.found THEN Ok(r.st, this.v)
                   ELSE RuntimeErr(r.st, UndefinedVariable("this"), 42))
    ELSE r

\* LoxFunction::call with the Return arm giving the value in an initializer too
CallOutcomeNoThis(fn, r) ==
    CASE r.kind = "ok" ->
            IF ~fn.is_initializer THEN Ok(r.st, Nil)
            ELSE LET this == Get(r.st, fn.closure, "this")
                 IN  IF this.found THEN Ok(r.st, this.v)
                     ELSE RuntimeErr(r.st, UndefinedVariable("this"), 42)
      [] r.kind = "return" -> Ok(r.st, r.v)
      [] OTHER -> r

\* how LoxFunction::call turns the outcome of the body into its own
CallOutcome(fn, r) ==
    CASE r.kind = "ok" ->
            IF ~fn.is_initializer THEN Ok(r.st, Nil)
            ELSE LET this == Get(r.st, fn.closure, "this")
                 IN  IF this.found THEN Ok(r.st, this.v)
                     ELSE RuntimeErr(r.st, UndefinedVariable("this"), 42)
      [] r.kind = "return" ->
            IF fn.is_initializer
            THEN LET this == Get(r.st, fn.closure, "this")
                 IN  IF this.found THEN Ok(r.st, this.v)
                     ELSE RuntimeErr(r.st, UndefinedVariable("this"), 42)
            ELSE Ok(r.st, r.v)
      [] OTHER -> r

\* the loop of LoxFunction::call that defines the parameters
RECURSIVE DefineParams(_, _, _, _, _)
DefineParams(st, env, params, arguments, i) ==
    IF i > Len(params) THEN st
    ELSE DefineParams(Define(st, env, params[i], arguments[i]), env, params,
                      arguments, i + 1)

(***************************************************************************)
(* Interpreter (src/interpreter.rs)                                        *)
(***************************************************************************)
\* the value last logged for name in activation act among the first upTo
\* entries of the log
LastWritten(log, upTo, act, name) ==
    LET hits == {i \in 1..upTo : log[i].act = act /\ log[i].name = name}
    IN  IF hits = {} THEN [has |-> FALSE, v |-> Nil]
        ELSE [has |-> TRUE, v |-> log[CHOOSE i \in hits : \A j \in hits : j <= i].v]

\* check_number_operand
CheckNumberOperand(operand) == IsNumber(operand)

\* check_number_operands
CheckNumberOperands(left, right) == IsNumber(left) /\ IsNumber(right)

\* lookup_variable
LookupVariable(st, name, expr) ==
    LET resolved == expr.id \in DOMAIN st.locals
        distance == IF resolved THEN st.locals[expr.id] ELSE 0
    IN  Only({
        Only({
            [r EXCEPT !.st = Emit(r.st, [e |-> "read", id |-> expr.id, name |-> name,
                                         resolved |-> resolved, depth |-> distance,
                                         cur |-> st.environment, frame |-> st.ctx.frame,
                                         hop |-> Hops(st, st.environment, distance),
                                         target |-> got.env, kind |-> r.kind,
                                         got |-> r.v, logLen |-> Len(st.written)])]
            : r \in {IF got.env = -1 THEN Panicked(st, "must have an ancestor")
                     ELSE IF got.found THEN Ok(st, got.v)
                     ELSE RuntimeErr(st, UndefinedVariable(name), expr.line)} })
        : got \in {IF resolved THEN GetAt(st, st.environment, distance, name)
                   ELSE Get(st, GlobalsRef, name)} })

\* the Assign arm's store: assign_at through locals, else globals.assign
AssignVariable(st, name, expr, value) ==
    LET resolved == expr.id \in DOMAIN st.locals
        distance == IF resolved THEN st.locals[expr.id] ELSE 0
    IN  Only({
        Only({
            [r EXCEPT !.st = Emit(r.st, [e |-> "write", id |-> expr.id, name |-> name,
                                         resolved |-> resolved, depth |-> distance,
                                         cur |-> st.environment, frame |-> st.ctx.frame,
                                         hop |-> Hops(st, st.environment, distance),
                                         target |-> done.env, kind |-> r.kind,
                                         v |-> value, logLen |-> Len(r.st.written)])]
            : r \in {IF done.env = -1 THEN Panicked(st, "must have an ancestor")
                     ELSE IF done.found THEN Ok(done.st, value)
                     ELSE RuntimeErr(st, UndefinedVariable(name), expr.line)} })
        : done \in {IF resolved
                    THEN AssignAt(st, st.environment, distance, name, value)
                    ELSE Assign(st, GlobalsRef, name, value)} })

RECURSIVE Evaluate(_, _)
RECURSIVE EvaluateKind(_, _, _)
RECURSIVE EvaluateArguments(_, _, _, _)
RECURSIVE Execute(_, _)
RECURSIVE ExecuteBlockInnerFrom(_, _, _, _)
RECURSIVE WhileLoop(_, _)

\* execute_block_inner: the loop over statements lo..hi, in order, ended by
\* the first Err (split in halves, which keeps the evaluation shallow)
ExecuteBlockInnerFrom(st, statements, lo, hi) ==
    IF lo > hi THEN Ok(st, Nil)
    ELSE IF lo = hi THEN Execute(st, statements[lo])
    ELSE LET mid == (lo + hi) \div 2
             r == ExecuteBlockInnerFrom(st, statements, lo, mid)
         IN  IF r.kind # "ok" THEN r
             ELSE ExecuteBlockInnerFrom(r.st, statements, mid + 1, hi)

ExecuteBlockInner(st, statements) ==
    ExecuteBlockInnerFrom(st, statements, 1, Len(statements))

\* execute_block with the ? on the call of execute_block_inner: an Err leaves
\* the block's environment current
ExecuteBlockNoRestore(st, statements, env) ==
    LET previous == st.environment
        r == ExecuteBlockInner([st EXCEPT !.environment = env], statements)
    IN  IF r.kind = "ok" THEN [r EXCEPT !.st.environment = previous] ELSE r

\* execute_block: the previous environment is put back on every outcome
ExecuteBlock(st, statements, env) ==
    LET previous == st.environment
        r == ExecuteBlockInner([st EXCEPT !.environment = env], statements)
    IN  [r EXCEPT !.st.environment = previous]

\* LoxFunction::call
FunctionCall(st, fn, arguments) ==
    LET frame == Len(st.trace) + 1
        env == Len(st.envs) + 1
    IN  Only({
        Only({
            [r EXCEPT !.st = Emit([r.st EXCEPT !.ctx = st.ctx],
                                  [e |-> "exit", frame |-> frame, fn |-> fn.sid,
                                   env |-> env, kind |-> r.kind, v |-> r.v])]
            : r \in {CallOutcome(fn,
                        ExecuteBlock([s2 EXCEPT !.ctx = [frame |-> frame,
                                                         cls |-> fn.ctx.cls,
                                                         super |-> fn.ctx.super,
                                                         this |-> fn.ctx.this]],
                                     fn.body, env))} })
        : s2 \in {DefineParams(
                    Wrap(Emit(st, [e |-> "call", fn |-> fn.sid,
                                   closure |-> fn.closure,
                                   is_initializer |-> fn.is_initializer,
                                   this |-> fn.ctx.this]),
                         fn.closure, [kind |-> "fun", sid |-> fn.sid]),
                    env, fn.params, arguments, 1)} })

\* impl Callable for LoxClass: call
ClassCall(st, class, arguments) ==
    LET ref == Len(st.insts) + 1
        initializer == FindMethod(class, "init")
    IN  Only({
        IF initializer.t = "fn"
        THEN Only({
                Only({ IF r.kind # "ok" THEN r ELSE Ok(r.st, Instance(ref))
                       : r \in {FunctionCall(b.st, b.fn, arguments)} })
                : b \in {Bind(s1, initializer, ref)} })
        ELSE Ok(s1, Instance(ref))
        : s1 \in {Emit(NewInstance(st, class),
                       [e |-> "new", ref |-> ref, class |-> class.sid])} })

\* function.call(self, evaluated_args) on the Box<dyn Callable>
CallValue(st, callee, arguments) ==
    CASE callee.t = "fn" -> FunctionCall(st, callee, arguments)
      [] callee.t = "class" -> ClassCall(st, callee, arguments)
      [] callee.t = "native" -> Ok(st, st.now)

ExpectedArguments(arity, arg_cnt) ==
    "Expected " \o ToString(arity) \o " arguments but got " \o ToString(arg_cnt) \o "."

\* the loop of the Call arm over the arguments: [st, kind, v, message, line, args]
EvaluateArguments(st, arguments, i, evaluated_args) ==
    IF i > Len(arguments)
    THEN [st |-> st, kind |-> "ok", v |-> Nil, message |-> "", line |-> 0,
          args |-> evaluated_args]
    ELSE LET r == Evaluate(st, arguments[i])
         IN  IF r.kind # "ok"
             THEN [st |-> r.st, kind |-> r.kind, v |-> r.v, message |-> r.message,
                   line |-> r.line, args |-> evaluated_args]
             ELSE EvaluateArguments(r.st, arguments, i + 1, Append(evaluated_args, r.v))

\* what the Call arm does once callee and arguments are evaluated
CallAlways(st, callee, evaluated_args, line) ==
    IF IsCallable(callee)
    THEN CallValue(st, callee, [i \in 1..Arity(callee) |->
                                   IF i <= Len(evaluated_args) THEN evaluated_args[i]
                                   ELSE Nil])
    ELSE RuntimeErr(st, "Can only call functions and classes.", line)

Dispatch(st, callee, evaluated_args, line) ==
    IF IsCallable(callee)
    THEN LET arity == Arity(callee)
             arg_cnt == Len(evaluated_args)
         IN  IF arg_cnt # arity
             THEN RuntimeErr(st, ExpectedArguments(arity, arg_cnt), line)
             ELSE CallValue(st, callee, evaluated_args)
    ELSE RuntimeErr(st, "Can only call functions and classes.", line)

\* the Logical arm's early return: the left operand decides
ShortCircuitsInverted(operator, left) ==
    IF operator = "Or" THEN ~IsTruthy(left) ELSE IsTruthy(left)

ShortCircuits(operator, left) ==
    IF operator = "Or" THEN IsTruthy(left) ELSE ~IsTruthy(left)

\* f64 comparisons of the Binary arm (false when either side is NaN)
F64Less(a, b) ==
    IF IsNaN(a) \/ IsNaN(b) THEN FALSE
    ELSE IF IsInf(a) THEN a.n < 0 /\ ~(IsInf(b) /\ b.n < 0)
    ELSE IF IsInf(b) THEN b.n > 0
    ELSE a.n * b.d < b.n * a.d

F64LessEqual(a, b) == F64Less(a, b) \/ TwValueEq(a, b)

\* the Binary arm once both operands are evaluated
BinaryOp(st, operator, left, right, line) ==
    LET numbers == CheckNumberOperands(left, right)
        notNumbers == RuntimeErr(st, "Operands must be a numbers.", line)
    IN  CASE operator = "Greater" ->
                IF numbers THEN Ok(st, Boolean(F64Less(right, left))) ELSE notNumbers
          [] operator = "GreaterEqual" ->
                IF numbers THEN Ok(st, Boolean(F64LessEqual(right, left))) ELSE notNumbers
          [] operator = "Less" ->
                IF numbers THEN Ok(st, Boolean(F64Less(left, right))) ELSE notNumbers
          [] operator = "LessEqual" ->
                IF numbers THEN Ok(st, Boolean(F64LessEqual(left, right))) ELSE notNumbers
          [] operator = "EqualEqual" -> Ok(st, Boolean(TwValueEq(left, right)))
          [] operator = "BangEqual" -> Ok(st, Boolean(~TwValueEq(left, right)))
          [] operator = "Minus" ->
                IF numbers THEN Ok(st, ValueSub(left, right)) ELSE notNumbers
          [] operator = "Plus" ->
                IF numbers THEN Ok(st, ValueAdd(left, right))
                ELSE IF left.t = "str" /\ right.t = "str"
                THEN Ok(st, String(left.s \o right.s))
                ELSE RuntimeErr(st, "Operands must be two numbers or two strings.", line)
          [] operator = "Slash" ->
                IF numbers THEN Ok(st, ValueDiv(left, right)) ELSE notNumbers
          [] operator = "Star" ->
                IF numbers THEN Ok(st, ValueMul(left, right)) ELSE notNumbers
          [] OTHER -> Panicked(st, "not a valid binary operator.")

\* the Super arm
EvaluateSuper(st, expr) ==
    IF expr.id \notin DOMAIN st.locals THEN Panicked(st, "must have super in locals")
    ELSE
    LET distance == st.locals[expr.id]
    IN  Only({
        Only({
        Only({
            [r EXCEPT !.st = Emit(r.st, [e |-> "super", id |-> expr.id,
                                         method |-> expr.method, ctx |-> st.ctx,
                                         superclass |-> superclass.v,
                                         object |-> object.v,
                                         kind |-> r.kind, v |-> r.v,
                                         message |-> r.message])]
            : r \in {
                IF superclass.env = -1 THEN Panicked(st, "must have an ancestor")
                ELSE IF ~superclass.found
                THEN RuntimeErr(st, UndefinedVariable("super"), 42)
                ELSE IF object.env = -1 THEN Panicked(st, "must have an ancestor")
                ELSE IF ~object.found THEN RuntimeErr(st, UndefinedVariable("this"), 42)
                ELSE IF ~IsCallable(superclass.v)
                THEN Panicked(st, "superclass must be a callable")
                ELSE IF superclass.v.t # "class"
                THEN Panicked(st, "superclass must be a class")
                ELSE LET method == FindMethod(superclass.v, expr.method)
                     IN  IF method.t # "fn"
                         THEN RuntimeErr(st, UndefinedProperty(expr.method), expr.line)
                         ELSE IF object.v.t # "inst"
                         THEN Panicked(st, "object must be an instance")
                         ELSE Only({Ok(b.st, b.fn)
                                    : b \in {Bind(st, method, object.v.ref)}})} })
        : object \in {IF distance = 0 THEN [found |-> FALSE, v |-> Nil, env |-> -1]
                      ELSE GetAt(st, st.environment, distance - 1, "this")} })
        : superclass \in {GetAt(st, st.environment, distance, "super")} })

\* evaluate
Evaluate(st, expr) ==
    LET at == Len(st.trace) + 1
    IN  Only({ [r EXCEPT !.st = Emit(r.st, [e |-> "leave", id |-> expr.id, at |-> at,
                                            kind |-> r.kind, v |-> r.v,
                                            message |-> r.message])]
               : r \in {EvaluateKind(Emit(st, [e |-> "enter", id |-> expr.id]),
                                     expr, at)} })

\* the arms of evaluate; at is the position of the expression's enter event
EvaluateKind(st, expr, at) ==
    CASE expr.k = "Literal" -> Ok(st, expr.value)
      [] expr.k = "Grouping" -> Evaluate(st, expr.expr)
      [] expr.k = "Unary" ->
            LET r == Evaluate(st, expr.right)
            IN  IF r.kind # "ok" THEN r
                ELSE IF expr.operator = "Minus"
                THEN (IF CheckNumberOperand(r.v) THEN Ok(r.st, ValueNeg(r.v))
                      ELSE RuntimeErr(r.st, "Operand must be a number.", expr.line))
                ELSE IF expr.operator = "Bang" THEN Ok(r.st, Boolean(~IsTruthy(r.v)))
                ELSE Panicked(r.st, "not a valid unary operator")
      [] expr.k = "Binary" ->
            LET l == Evaluate(st, expr.left)
            IN  IF l.kind # "ok" THEN l
                ELSE LET r == Evaluate(l.st, expr.right)
                     IN  IF r.kind # "ok" THEN r
                         ELSE BinaryOp(r.st, expr.operator, l.v, r.v, expr.line)
      [] expr.k = "Variable" -> LookupVariable(st, expr.name, expr)
      [] expr.k = "Assign" ->
            LET r == Evaluate(st, expr.value)
            IN  IF r.kind # "ok" THEN r
                ELSE AssignVariable(r.st, expr.name, expr, r.v)
      [] expr.k = "Logical" ->
            LET l == Evaluate(st, expr.left)
            IN  IF l.kind # "ok" THEN l
                ELSE LET r == IF ShortCircuits(expr.operator, l.v) THEN l
                              ELSE Evaluate(l.st, expr.right)
                     IN  [r EXCEPT !.st = Emit(r.st,
                            [e |-> "logical", id |-> expr.id, at |-> at,
                             operator |-> expr.operator, left |-> expr.left.id,
                             right |-> expr.right.id, kind |-> r.kind, v |-> r.v])]
      [] expr.k = "Call" ->
            LET c == Evaluate(st, expr.callee)
            IN  IF c.kind # "ok" THEN c
                ELSE
                Only({
                IF a.kind # "ok"
                THEN [st |-> a.st, kind |-> a.kind, v |-> a.v,
                      message |-> a.message, line |-> a.line]
                ELSE Only({
                    [r EXCEPT !.st = Emit(r.st,
                       [e |-> "callexpr", id |-> expr.id, at |-> at,
                        callee |-> expr.callee.id,
                        arguments |-> [i \in 1..Len(expr.arguments) |->
                                          expr.arguments[i].id],
                        calleeV |-> c.v, args |-> a.args,
                        afterArgs |-> Len(a.st.trace),
                        envsAfterArgs |-> Len(a.st.envs),
                        writtenAfterArgs |-> Len(a.st.written),
                        instsAfterArgs |-> Len(a.st.insts),
                        envsEnd |-> Len(r.st.envs),
                        writtenEnd |-> Len(r.st.written),
                        fields |-> IF r.kind = "ok" /\ r.v.t = "inst"
                                   THEN r.st.insts[r.v.ref].fields ELSE EmptyMap,
                        kind |-> r.kind, v |-> r.v, message |-> r.message])]
                    : r \in {Dispatch(a.st, c.v, a.args, expr.line)} })
                : a \in {EvaluateArguments(c.st, expr.arguments, 1, <<>>)} })
      [] expr.k = "Get" ->
            LET o == Evaluate(st, expr.object)
            IN  IF o.kind # "ok" THEN o
                ELSE IF o.v.t # "inst"
                THEN RuntimeErr(o.st, "Only instances have properties.", expr.line)
                ELSE Only({
                        [r EXCEPT !.st = Emit(r.st,
                           [e |-> "get", id |-> expr.id, ref |-> o.v.ref,
                            name |-> expr.name,
                            isField |-> expr.name \in DOMAIN o.st.insts[o.v.ref].fields,
                            class |-> o.st.insts[o.v.ref].class,
                            kind |-> r.kind, v |-> r.v, message |-> r.message])]
                        : r \in {InstanceGet(o.st, o.v.ref, expr.name, expr.line)} })
      [] expr.k = "Set" ->
            LET o == Evaluate(st, expr.object)
            IN  IF o.kind # "ok" THEN o
                ELSE IF o.v.t # "inst"
                THEN RuntimeErr(o.st, "Only instances have fields.", expr.line)
                ELSE LET r == Evaluate(o.st, expr.value)
                     IN  IF r.kind # "ok" THEN r
                         ELSE Ok(Emit(InstanceSet(r.st, o.v.ref, expr.name, r.v),
                                      [e |-> "set", id |-> expr.id, ref |-> o.v.ref,
                                       name |-> expr.name, v |-> r.v,
                                       frame |-> r.st.ctx.frame]),
                                 r.v)
      [] expr.k = "This" -> LookupVariable(st, "this", expr)
      [] expr.k = "Super" -> EvaluateSuper(st, expr)

\* the Function arm of execute: the closure is the current environment
DeclareFunctionByCopy(st, stmt) ==
    LET copy == [st EXCEPT !.envs = Append(@, st.envs[st.environment])]
        function == LoxFunction(stmt, LastEnv(copy), FALSE, 0,
                                [cls |-> st.ctx.cls, super |-> st.ctx.super,
                                 this |-> st.ctx.this])
    IN  Emit(Define(copy, st.environment, stmt.name, function),
             [e |-> "declare", sid |-> stmt.sid, env |-> st.environment,
              closure |-> function.closure])

DeclareFunction(st, stmt) ==
    LET function == LoxFunction(stmt, st.environment, FALSE, 0,
                                [cls |-> st.ctx.cls, super |-> st.ctx.super,
                                 this |-> st.ctx.this])
    IN  Emit(Define(st, st.environment, stmt.name, function),
             [e |-> "declare", sid |-> stmt.sid, env |-> st.environment,
              closure |-> function.closure])

\* the methods of a class declaration: HashMap<String, LoxFunction>
RECURSIVE ClassMethods(_, _, _, _, _)
ClassMethods(methods, i, closure, owner, sc) ==
    IF i > Len(methods) THEN EmptyMap
    ELSE LET rest == ClassMethods(methods, i + 1, closure, owner, sc)
             function == LoxFunction(methods[i], closure, methods[i].name = "init",
                                     owner, [cls |-> owner, super |-> sc, this |-> 0])
         IN  IF methods[i].name \in DOMAIN rest THEN rest
             ELSE (methods[i].name :> function) @@ rest

\* the Class arm of execute
ExecuteClass(st, stmt) ==
    LET has == stmt.superclass.k # "None"
    IN  Only({
        IF sup.kind # "ok" THEN sup
        ELSE IF has /\ sup.v.t # "class"
        THEN RuntimeErr(sup.st, "Superclass must be a class", stmt.line)
        ELSE
        LET s1 == Define(sup.st, sup.st.environment, stmt.name, Nil)
            s2 == IF ~has THEN s1
                  ELSE LET w == Wrap(s1, s1.environment,
                                     [kind |-> "super", sid |-> stmt.sid])
                       IN  Define([w EXCEPT !.environment = LastEnv(w)], LastEnv(w),
                                  "super", sup.v)
            functions == ClassMethods(stmt.methods, 1, s2.environment, stmt.sid, sup.v)
            s3 == IF ~has THEN s2
                  ELSE [s2 EXCEPT !.environment = Ancestor(s2, s2.environment, 0)]
            class == LoxClass(stmt.name, sup.v, functions, stmt.sid)
            done == Assign(s3, s3.environment, stmt.name, class)
        IN  IF done.found THEN Ok(done.st, Nil)
            ELSE RuntimeErr(s3, UndefinedVariable(stmt.name), stmt.line)
        : sup \in {IF has THEN Evaluate(st, stmt.superclass) ELSE Ok(st, NoMethod)} })

\* the While arm of execute
WhileLoop(st, stmt) ==
    Only({ IF c.kind # "ok" THEN c
           ELSE IF ~IsTruthy(c.v) THEN Ok(c.st, Nil)
           ELSE LET b == Execute(c.st, stmt.body)
                IN  IF b.kind # "ok" THEN b ELSE WhileLoop(b.st, stmt)
           : c \in {Evaluate(st, stmt.condition)} })

\* execute
Execute(st0, stmt) ==
    LET st == Emit(st0, [e |-> "exec", sid |-> stmt.sid, frame |-> st0.ctx.frame,
                         env |-> st0.environment])
    IN
    CASE stmt.k = "Expression" ->
            Only({ IF r.kind # "ok" THEN r ELSE Ok(r.st, Nil)
                   : r \in {Evaluate(st, stmt.expr)} })
      [] stmt.k = "Print" ->
            Only({ IF r.kind # "ok" THEN r
                   ELSE Ok([r.st EXCEPT !.stdout = Append(@, Show(r.st, r.v))], Nil)
                   : r \in {Evaluate(st, stmt.expr)} })
      [] stmt.k = "Var" ->
            Only({ IF r.kind # "ok" THEN r
                   ELSE Ok(Define(r.st, r.st.environment, stmt.name, r.v), Nil)
                   : r \in {IF stmt.initializer.k # "None"
                            THEN Evaluate(st, stmt.initializer)
                            ELSE Ok(st, Nil)} })
      [] stmt.k = "Block" ->
            LET w == Wrap(st, st.environment, [kind |-> "block", sid |-> stmt.sid])
            IN  ExecuteBlock(w, stmt.statements, LastEnv(w))
      [] stmt.k = "If" ->
            Only({ IF c.kind # "ok" THEN c
                   ELSE IF IsTruthy(c.v) THEN Execute(c.st, stmt.then_branch)
                   ELSE IF stmt.else_branch.k # "None"
                   THEN Execute(c.st, stmt.else_branch)
                   ELSE Ok(c.st, Nil)
                   : c \in {Evaluate(st, stmt.condition)} })
      [] stmt.k = "While" -> WhileLoop(st, stmt)
      [] stmt.k = "Function" -> Ok(DeclareFunction(st, stmt), Nil)
      [] stmt.k = "Return" ->
            Only({ IF r.kind # "ok" THEN r
                   ELSE ReturnErr(Emit(r.st, [e |-> "return", sid |-> stmt.sid,
                                              frame |-> r.st.ctx.frame, v |-> r.v,
                                              env |-> r.st.environment,
                                              bare |-> stmt.value.k = "None"]),
                                  r.v)
                   : r \in {IF stmt.value.k # "None" THEN Evaluate(st, stmt.value)
                            ELSE Ok(st, Nil)} })
      [] stmt.k = "Class" -> ExecuteClass(st, stmt)

(***************************************************************************)
(* Lox programs, parsed: the Vec<Stmt> the parser hands to the resolver    *)
(* and the interpreter.  id is Expr.id; sid numbers the statements.       *)
(***************************************************************************)
\* a closure reads a global that a later block variable of the same name shadows
\*   var a = "global";
\*   {
\*     fun showA() { return a; }
\*     var a = "block";
\*     print showA();
\*     print a;
\*   }
ProgShadow ==
    <<
      [k |-> "Var", sid |-> 2, name |-> "a", line |-> 1,
       initializer |-> [k |-> "Literal", id |-> 1, value |-> String("global")]],
      [k |-> "Block", sid |-> 13,
       statements |-> <<
                        [k |-> "Function", sid |-> 5, name |-> "showA", line |-> 3, params |-> <<>>,
                         body |-> <<
                                    [k |-> "Return", sid |-> 4, line |-> 3,
                                     value |-> [k |-> "Variable", id |-> 3, name |-> "a", line |-> 3]]>>],
                        [k |-> "Var", sid |-> 7, name |-> "a", line |-> 4,
                         initializer |-> [k |-> "Literal", id |-> 6, value |-> String("block")]],
                        [k |-> "Print", sid |-> 10,
                         expr |-> [k |-> "Call", id |-> 9, line |-> 5, arguments |-> <<>>,
                                   callee |-> [k |-> "Variable", id |-> 8, name |-> "showA", line |-> 5]]],
                        [k |-> "Print", sid |-> 12,
                         expr |-> [k |-> "Variable", id |-> 11, name |-> "a", line |-> 6]]>>]>>

\* a closure reads a variable two scopes out; a nearer one is declared after it
\*   {
\*     var a = 1;
\*     {
\*       fun f() { return a; }
\*       var a = 2;
\*       print f();
\*       a = 3;
\*       print a;
\*     }
\*     print a;
\*   }
ProgDepth ==
    <<
      [k |-> "Block", sid |-> 33,
       statements |-> <<
                        [k |-> "Var", sid |-> 15, name |-> "a", line |-> 2,
                         initializer |-> [k |-> "Literal", id |-> 14, value |-> Number(1)]],
                        [k |-> "Block", sid |-> 30,
                         statements |-> <<
                                          [k |-> "Function", sid |-> 18, name |-> "f", line |-> 4, params |-> <<>>,
                                           body |-> <<
                                                      [k |-> "Return", sid |-> 17, line |-> 4,
                                                       value |-> [k |-> "Variable", id |-> 16, name |-> "a", line |-> 4]]>>],
                                          [k |-> "Var", sid |-> 20, name |-> "a", line |-> 5,
                                           initializer |-> [k |-> "Literal", id |-> 19, value |-> Number(2)]],
                                          [k |-> "Print", sid |-> 23,
                                           expr |-> [k |-> "Call", id |-> 22, line |-> 6, arguments |-> <<>>,
                                                     callee |-> [k |-> "Variable", id |-> 21, name |-> "f", line |-> 6]]],
                                          [k |-> "Expression", sid |-> 27,
                                           expr |-> [k |-> "Assign", id |-> 26, name |-> "a", line |-> 7,
                                                     value |-> [k |-> "Literal", id |-> 25, value |-> Number(3)]]],
                                          [k |-> "Print", sid |-> 29,
                                           expr |-> [k |-> "Variable", id |-> 28, name |-> "a", line |-> 8]]>>],
                        [k |-> "Print", sid |-> 32,
                         expr |-> [k |-> "Variable", id |-> 31, name |-> "a", line |-> 10]]>>]>>

\* a closure assigns a variable two scopes out
\*   {
\*     var a = 1;
\*     {
\*       fun set(v) { a = v; return a; }
\*       var a = 2;
\*       print set($v);
\*       print a;
\*     }
\*     print a;
\*   }
ProgAssignDepth(v) ==
    <<
      [k |-> "Block", sid |-> 54,
       statements |-> <<
                        [k |-> "Var", sid |-> 35, name |-> "a", line |-> 2,
                         initializer |-> [k |-> "Literal", id |-> 34, value |-> Number(1)]],
                        [k |-> "Block", sid |-> 51,
                         statements |-> <<
                                          [k |-> "Function", sid |-> 42, name |-> "set", line |-> 4, params |-> <<"v">>,
                                           body |-> <<
                                                      [k |-> "Expression", sid |-> 39,
                                                       expr |-> [k |-> "Assign", id |-> 38, name |-> "a", line |-> 4,
                                                                 value |-> [k |-> "Variable", id |-> 37, name |-> "v", line |-> 4]]],
                                                      [k |-> "Return", sid |-> 41, line |-> 4,
                                                       value |-> [k |-> "Variable", id |-> 40, name |-> "a", line |-> 4]]>>],
                                          [k |-> "Var", sid |-> 44, name |-> "a", line |-> 5,
                                           initializer |-> [k |-> "Literal", id |-> 43, value |-> Number(2)]],
                                          [k |-> "Print", sid |-> 48,
                                           expr |-> [k |-> "Call", id |-> 47, line |-> 6,
                                                     callee |-> [k |-> "Variable", id |-> 45, name |-> "set", line |-> 6],
                                                     arguments |-> <<
                                                                     [k |-> "Literal", id |-> 46, value |-> v]>>]],
                                          [k |-> "Print", sid |-> 50,
                                           expr |-> [k |-> "Variable", id |-> 49, name |-> "a", line |-> 7]]>>],
                        [k |-> "Print", sid |-> 53,
                         expr |-> [k |-> "Variable", id |-> 52, name |-> "a", line |-> 9]]>>]>>

\* two closures over one scope, and two calls of the enclosing function
\*   var inc; var get;
\*   fun make() {
\*     var c = 0;
\*     fun i() { c = c + 1; }
\*     fun g() { return c; }
\*     inc = i; get = g;
\*     i();
\*     print c;
\*   }
\*   make();
\*   var get1 = get;
\*   make();
\*   inc();
\*   print get1();
\*   print get();
ProgCounter ==
    <<
      [k |-> "Var", sid |-> 55, name |-> "inc", line |-> 1, initializer |-> None],
      [k |-> "Var", sid |-> 56, name |-> "get", line |-> 1, initializer |-> None],
      [k |-> "Function", sid |-> 82, name |-> "make", line |-> 2, params |-> <<>>,
       body |-> <<
                  [k |-> "Var", sid |-> 58, name |-> "c", line |-> 3,
                   initializer |-> [k |-> "Literal", id |-> 57, value |-> Number(0)]],
                  [k |-> "Function", sid |-> 65, name |-> "i", line |-> 4, params |-> <<>>,
                   body |-> <<
                              [k |-> "Expression", sid |-> 64,
                               expr |-> [k |-> "Assign", id |-> 63, name |-> "c", line |-> 4,
                                         value |-> [k |-> "Binary", id |-> 62, operator |-> "Plus", line |-> 4,
                                                    left |-> [k |-> "Variable", id |-> 60, name |-> "c", line |-> 4],
                                                    right |-> [k |-> "Literal", id |-> 61, value |-> Number(1)]]]]>>],
                  [k |-> "Function", sid |-> 68, name |-> "g", line |-> 5, params |-> <<>>,
                   body |-> <<
                              [k |-> "Return", sid |-> 67, line |-> 5,
                               value |-> [k |-> "Variable", id |-> 66, name |-> "c", line |-> 5]]>>],
                  [k |-> "Expression", sid |-> 72,
                   expr |-> [k |-> "Assign", id |-> 71, name |-> "inc", line |-> 6,
                             value |-> [k |-> "Variable", id |-> 70, name |-> "i", line |-> 6]]],
                  [k |-> "Expression", sid |-> 76,
                   expr |-> [k |-> "Assign", id |-> 75, name |-> "get", line |-> 6,
                             value |-> [k |-> "Variable", id |-> 74, name |-> "g", line |-> 6]]],
                  [k |-> "Expression", sid |-> 79,
                   expr |-> [k |-> "Call", id |-> 78, line |-> 7, arguments |-> <<>>,
                             callee |-> [k |-> "Variable", id |-> 77, name |-> "i", line |-> 7]]],
                  [k |-> "Print", sid |-> 81,
                   expr |-> [k |-> "Variable", id |-> 80, name |-> "c", line |-> 8]]>>],
      [k |-> "Expression", sid |-> 85,
       expr |-> [k |-> "Call", id |-> 84, line |-> 10, arguments |-> <<>>,
                 callee |-> [k |-> "Variable", id |-> 83, name |-> "make", line |-> 10]]],
      [k |-> "Var", sid |-> 87, name |-> "get1", line |-> 11,
       initializer |-> [k |-> "Variable", id |-> 86, name |-> "get", line |-> 11]],
      [k |-> "Expression", sid |-> 90,
       expr |-> [k |-> "Call", id |-> 89, line |-> 12, arguments |-> <<>>,
                 callee |-> [k |-> "Variable", id |-> 88, name |-> "make", line |-> 12]]],
      [k |-> "Expression", sid |-> 93,
       expr |-> [k |-> "Call", id |-> 92, line |-> 13, arguments |-> <<>>,
                 callee |-> [k |-> "Variable", id |-> 91, name |-> "inc", line |-> 13]]],
      [k |-> "Print", sid |-> 96,
       expr |-> [k |-> "Call", id |-> 95, line |-> 14, arguments |-> <<>>,
                 callee |-> [k |-> "Variable", id |-> 94, name |-> "get1", line |-> 14]]],
      [k |-> "Print", sid |-> 99,
       expr |-> [k |-> "Call", id |-> 98, line |-> 15, arguments |-> <<>>,
                 callee |-> [k |-> "Variable", id |-> 97, name |-> "get", line |-> 15]]]>>

\* return from nested blocks, branches and loops
\*   fun f(n) {
\*     while (true) {
\*       if (n > 1) { { return n; } }
\*       n = n + 1;
\*     }
\*     print "unreachable";
\*   }
\*   print f($n);
\*   fun g() { return; print "unreachable"; }
\*   print g();
\*   fun outer() { fun inner() { return "in"; } inner(); return "out"; }
\*   print outer();
ProgReturn(n) ==
    <<
      [k |-> "Function", sid |-> 119, name |-> "f", line |-> 1, params |-> <<"n">>,
       body |-> <<
                  [k |-> "While", sid |-> 116,
                   condition |-> [k |-> "Literal", id |-> 100, value |-> Boolean(TRUE)],
                   body |-> [k |-> "Block", sid |-> 115,
                             statements |-> <<
                                              [k |-> "If", sid |-> 108, else_branch |-> None,
                                               condition |-> [k |-> "Binary", id |-> 103, operator |-> "Greater", line |-> 3,
                                                              left |-> [k |-> "Variable", id |-> 101, name |-> "n", line |-> 3],
                                                              right |-> [k |-> "Literal", id |-> 102, value |-> Number(1)]],
                                               then_branch |-> [k |-> "Block", sid |-> 107,
                                                                statements |-> <<
                                                                                 [k |-> "Block", sid |-> 106,
                                                                                  statements |-> <<
                                                                                                   [k |-> "Return", sid |-> 105, line |-> 3,
                                                                                                    value |-> [k |-> "Variable", id |-> 104, name |-> "n", line |-> 3]]>>]>>]],
                                              [k |-> "Expression", sid |-> 114,
                                               expr |-> [k |-> "Assign", id |-> 113, name |-> "n", line |-> 4,
                                                         value |-> [k |-> "Binary", id |-> 112, operator |-> "Plus", line |-> 4,
                                                                    left |-> [k |-> "Variable", id |-> 110, name |-> "n", line |-> 4],
                                                                    right |-> [k |-> "Literal", id |-> 111, value |-> Number(1)]]]]>>]],
                  [k |-> "Print", sid |-> 118,
                   expr |-> [k |-> "Literal", id |-> 117, value |-> String("unreachable")]]>>],
      [k |-> "Print", sid |-> 123,
       expr |-> [k |-> "Call", id |-> 122, line |-> 8,
                 callee |-> [k |-> "Variable", id |-> 120, name |-> "f", line |-> 8],
                 arguments |-> <<
                                 [k |-> "Literal", id |-> 121, value |-> n]>>]],
      [k |-> "Function", sid |-> 127, name |-> "g", line |-> 9, params |-> <<>>,
       body |-> <<
                  [k |-> "Return", sid |-> 124, line |-> 9, value |-> None],
                  [k |-> "Print", sid |-> 126,
                   expr |-> [k |-> "Literal", id |-> 125, value |-> String("unreachable")]]>>],
      [k |-> "Print", sid |-> 130,
       expr |-> [k |-> "Call", id |-> 129, line |-> 10, arguments |-> <<>>,
                 callee |-> [k |-> "Variable", id |-> 128, name |-> "g", line |-> 10]]],
      [k |-> "Function", sid |-> 139, name |-> "outer", line |-> 11, params |-> <<>>,
       body |-> <<
                  [k |-> "Function", sid |-> 133, name |-> "inner", line |-> 11, params |-> <<>>,
                   body |-> <<
                              [k |-> "Return", sid |-> 132, line |-> 11,
                               value |-> [k |-> "Literal", id |-> 131, value |-> String("in")]]>>],
                  [k |-> "Expression", sid |-> 136,
                   expr |-> [k |-> "Call", id |-> 135, line |-> 11, arguments |-> <<>>,
                             callee |-> [k |-> "Variable", id |-> 134, name |-> "inner", line |-> 11]]],
                  [k |-> "Return", sid |-> 138, line |-> 11,
                   value |-> [k |-> "Literal", id |-> 137, value |-> String("out")]]>>],
      [k |-> "Print", sid |-> 142,
       expr |-> [k |-> "Call", id |-> 141, line |-> 12, arguments |-> <<>>,
                 callee |-> [k |-> "Variable", id |-> 140, name |-> "outer", line |-> 12]]]>>

\* an initializer that falls off its end or returns early
\*   class P {
\*     init(x) { this.x = x; if (x) return; this.y = 2; }
\*   }
\*   var p = P($x);
\*   print p.x;
\*   var q = p.init(3);
\*   print q.x;
\*   print p.x;
ProgInitializer(x) ==
    <<
      [k |-> "Class", sid |-> 157, name |-> "P", line |-> 1, superclass |-> None,
       methods |-> <<
                     [k |-> "Function", sid |-> 156, name |-> "init", line |-> 2, params |-> <<"x">>,
                      body |-> <<
                                 [k |-> "Expression", sid |-> 147,
                                  expr |-> [k |-> "Set", id |-> 146, name |-> "x", line |-> 2,
                                            object |-> [k |-> "This", id |-> 143, name |-> "this", line |-> 2],
                                            value |-> [k |-> "Variable", id |-> 145, name |-> "x", line |-> 2]]],
                                 [k |-> "If", sid |-> 150, else_branch |-> None,
                                  condition |-> [k |-> "Variable", id |-> 148, name |-> "x", line |-> 2],
                                  then_branch |-> [k |-> "Return", sid |-> 149, line |-> 2, value |-> None]],
                                 [k |-> "Expression", sid |-> 155,
                                  expr |-> [k |-> "Set", id |-> 154, name |-> "y", line |-> 2,
                                            object |-> [k |-> "This", id |-> 151, name |-> "this", line |-> 2],
                                            value |-> [k |-> "Literal", id |-> 153, value |-> Number(2)]]]>>]>>],
      [k |-> "Var", sid |-> 161, name |-> "p", line |-> 4,
       initializer |-> [k |-> "Call", id |-> 160, line |-> 4,
                        callee |-> [k |-> "Variable", id |-> 158, name |-> "P", line |-> 4],
                        arguments |-> <<
                                        [k |-> "Literal", id |-> 159, value |-> x]>>]],
      [k |-> "Print", sid |-> 164,
       expr |-> [k |-> "Get", id |-> 163, name |-> "x", line |-> 5,
                 object |-> [k |-> "Variable", id |-> 162, name |-> "p", line |-> 5]]],
      [k |-> "Var", sid |-> 169, name |-> "q", line |-> 6,
       initializer |-> [k |-> "Call", id |-> 168, line |-> 6,
                        callee |-> [k |-> "Get", id |-> 166, name |-> "init", line |-> 6,
                                    object |-> [k |-> "Variable", id |-> 165, name |-> "p", line |-> 6]],
                        arguments |-> <<
                                        [k |-> "Literal", id |-> 167, value |-> Number(3)]>>]],
      [k |-> "Print", sid |-> 172,
       expr |-> [k |-> "Get", id |-> 171, name |-> "x", line |-> 7,
                 object |-> [k |-> "Variable", id |-> 170, name |-> "q", line |-> 7]]],
      [k |-> "Print", sid |-> 175,
       expr |-> [k |-> "Get", id |-> 174, name |-> "x", line |-> 8,
                 object |-> [k |-> "Variable", id |-> 173, name |-> "p", line |-> 8]]]>>

\* a method of the superclass called on an instance of the subclass
\*   class A { m() { return "A.m"; } n() { return "A.n"; } }
\*   class B < A { n() { return "B.n"; } }
\*   var b = B();
\*   print b.n();
\*   print b.m();
ProgInherit ==
    <<
      [k |-> "Class", sid |-> 182, name |-> "A", line |-> 1, superclass |-> None,
       methods |-> <<
                     [k |-> "Function", sid |-> 178, name |-> "m", line |-> 1, params |-> <<>>,
                      body |-> <<
                                 [k |-> "Return", sid |-> 177, line |-> 1,
                                  value |-> [k |-> "Literal", id |-> 176, value |-> String("A.m")]]>>],
                     [k |-> "Function", sid |-> 181, name |-> "n", line |-> 1, params |-> <<>>,
                      body |-> <<
                                 [k |-> "Return", sid |-> 180, line |-> 1,
                                  value |-> [k |-> "Literal", id |-> 179, value |-> String("A.n")]]>>]>>],
      [k |-> "Class", sid |-> 187, name |-> "B", line |-> 2,
       superclass |-> [k |-> "Variable", id |-> 183, name |-> "A", line |-> 2],
       methods |-> <<
                     [k |-> "Function", sid |-> 186, name |-> "n", line |-> 2, params |-> <<>>,
                      body |-> <<
                                 [k |-> "Return", sid |-> 185, line |-> 2,
                                  value |-> [k |-> "Literal", id |-> 184, value |-> String("B.n")]]>>]>>],
      [k |-> "Var", sid |-> 190, name |-> "b", line |-> 3,
       initializer |-> [k |-> "Call", id |-> 189, line |-> 3, arguments |-> <<>>,
                        callee |-> [k |-> "Variable", id |-> 188, name |-> "B", line |-> 3]]],
      [k |-> "Print", sid |-> 194,
       expr |-> [k |-> "Call", id |-> 193, line |-> 4, arguments |-> <<>>,
                 callee |-> [k |-> "Get", id |-> 192, name |-> "n", line |-> 4,
                             object |-> [k |-> "Variable", id |-> 191, name |-> "b", line |-> 4]]]],
      [k |-> "Print", sid |-> 198,
       expr |-> [k |-> "Call", id |-> 197, line |-> 5, arguments |-> <<>>,
                 callee |-> [k |-> "Get", id |-> 196, name |-> "m", line |-> 5,
                             object |-> [k |-> "Variable", id |-> 195, name |-> "b", line |-> 5]]]]>>

\* own method, field shadowing a method, undefined property
\*   class A { m() { return "A.m"; } }
\*   var a = A();
\*   print a.m();
\*   a.m = "field";
\*   print a.m;
\*   print a.zz;
ProgProperty ==
    <<
      [k |-> "Class", sid |-> 202, name |-> "A", line |-> 1, superclass |-> None,
       methods |-> <<
                     [k |-> "Function", sid |-> 201, name |-> "m", line |-> 1, params |-> <<>>,
                      body |-> <<
                                 [k |-> "Return", sid |-> 200, line |-> 1,
                                  value |-> [k |-> "Literal", id |-> 199, value |-> String("A.m")]]>>]>>],
      [k |-> "Var", sid |-> 205, name |-> "a", line |-> 2,
       initializer |-> [k |-> "Call", id |-> 204, line |-> 2, arguments |-> <<>>,
                        callee |-> [k |-> "Variable", id |-> 203, name |-> "A", line |-> 2]]],
      [k |-> "Print", sid |-> 209,
       expr |-> [k |-> "Call", id |-> 208, line |-> 3, arguments |-> <<>>,
                 callee |-> [k |-> "Get", id |-> 207, name |-> "m", line |-> 3,
                             object |-> [k |-> "Variable", id |-> 206, name |-> "a", line |-> 3]]]],
      [k |-> "Expression", sid |-> 214,
       expr |-> [k |-> "Set", id |-> 213, name |-> "m", line |-> 4,
                 object |-> [k |-> "Variable", id |-> 210, name |-> "a", line |-> 4],
                 value |-> [k |-> "Literal", id |-> 212, value |-> String("field")]]],
      [k |-> "Print", sid |-> 217,
       expr |-> [k |-> "Get", id |-> 216, name |-> "m", line |-> 5,
                 object |-> [k |-> "Variable", id |-> 215, name |-> "a", line |-> 5]]],
      [k |-> "Print", sid |-> 220,
       expr |-> [k |-> "Get", id |-> 219, name |-> "zz", line |-> 6,
                 object |-> [k |-> "Variable", id |-> 218, name |-> "a", line |-> 6]]]>>

\* super in a method whose receiver is an instance of a subclass
\*   class A { m() { return "A.m"; } }
\*   class B < A { m() { return "B.m"; } t() { return super.m(); } }
\*   class C < B { m() { return "C.m"; } u() { return super.t(); } }
\*   print B().t();
\*   print C().u();
ProgSuper ==
    <<
      [k |-> "Class", sid |-> 224, name |-> "A", line |-> 1, superclass |-> None,
       methods |-> <<
                     [k |-> "Function", sid |-> 223, name |-> "m", line |-> 1, params |-> <<>>,
                      body |-> <<
                                 [k |-> "Return", sid |-> 222, line |-> 1,
                                  value |-> [k |-> "Literal", id |-> 221, value |-> String("A.m")]]>>]>>],
      [k |-> "Class", sid |-> 233, name |-> "B", line |-> 2,
       superclass |-> [k |-> "Variable", id |-> 225, name |-> "A", line |-> 2],
       methods |-> <<
                     [k |-> "Function", sid |-> 228, name |-> "m", line |-> 2, params |-> <<>>,
                      body |-> <<
                                 [k |-> "Return", sid |-> 227, line |-> 2,
                                  value |-> [k |-> "Literal", id |-> 226, value |-> String("B.m")]]>>],
                     [k |-> "Function", sid |-> 232, name |-> "t", line |-> 2, params |-> <<>>,
                      body |-> <<
                                 [k |-> "Return", sid |-> 231, line |-> 2,
                                  value |-> [k |-> "Call", id |-> 230, line |-> 2, arguments |-> <<>>,
                                             callee |-> [k |-> "Super", id |-> 229, name |-> "super", method |-> "m", line |-> 2]]]>>]>>],
      [k |-> "Class", sid |-> 242, name |-> "C", line |-> 3,
       superclass |-> [k |-> "Variable", id |-> 234, name |-> "B", line |-> 3],
       methods |-> <<
                     [k |-> "Function", sid |-> 237, name |-> "m", line |-> 3, params |-> <<>>,
                      body |-> <<
                                 [k |-> "Return", sid |-> 236, line |-> 3,
                                  value |-> [k |-> "Literal", id |-> 235, value |-> String("C.m")]]>>],
                     [k |-> "Function", sid |-> 241, name |-> "u", line |-> 3, params |-> <<>>,
                      body |-> <<
                                 [k |-> "Return", sid |-> 240, line |-> 3,
                                  value |-> [k |-> "Call", id |-> 239, line |-> 3, arguments |-> <<>>,
                                             callee |-> [k |-> "Super", id |-> 238, name |-> "super", method |-> "t", line |-> 3]]]>>]>>],
      [k |-> "Print", sid |-> 247,
       expr |-> [k |-> "Call", id |-> 246, line |-> 4, arguments |-> <<>>,
                 callee |-> [k |-> "Get", id |-> 245, name |-> "t", line |-> 4,
                             object |-> [k |-> "Call", id |-> 244, line |-> 4, arguments |-> <<>>,
                                         callee |-> [k |-> "Variable", id |-> 243, name |-> "B", line |-> 4]]]]],
      [k |-> "Print", sid |-> 252,
       expr |-> [k |-> "Call", id |-> 251, line |-> 5, arguments |-> <<>>,
                 callee |-> [k |-> "Get", id |-> 250, name |-> "u", line |-> 5,
                             object |-> [k |-> "Call", id |-> 249, line |-> 5, arguments |-> <<>>,
                                         callee |-> [k |-> "Variable", id |-> 248, name |-> "C", line |-> 5]]]]]>>

\* super.m where m is defined by the superclass of the superclass
\*   class G { m() { return "G.m"; } }
\*   class A < G { }
\*   class B < A { t() { return super.m(); } }
\*   print B().t();
ProgSuperGrand ==
    <<
      [k |-> "Class", sid |-> 256, name |-> "G", line |-> 1, superclass |-> None,
       methods |-> <<
                     [k |-> "Function", sid |-> 255, name |-> "m", line |-> 1, params |-> <<>>,
                      body |-> <<
                                 [k |-> "Return", sid |-> 254, line |-> 1,
                                  value |-> [k |-> "Literal", id |-> 253, value |-> String("G.m")]]>>]>>],
      [k |-> "Class", sid |-> 258, name |-> "A", line |-> 2, methods |-> <<>>,
       superclass |-> [k |-> "Variable", id |-> 257, name |-> "G", line |-> 2]],
      [k |-> "Class", sid |-> 264, name |-> "B", line |-> 3,
       superclass |-> [k |-> "Variable", id |-> 259, name |-> "A", line |-> 3],
       methods |-> <<
                     [k |-> "Function", sid |-> 263, name |-> "t", line |-> 3, params |-> <<>>,
                      body |-> <<
                                 [k |-> "Return", sid |-> 262, line |-> 3,
                                  value |-> [k |-> "Call", id |-> 261, line |-> 3, arguments |-> <<>>,
                                             callee |-> [k |-> "Super", id |-> 260, name |-> "super", method |-> "m", line |-> 3]]]>>]>>],
      [k |-> "Print", sid |-> 269,
       expr |-> [k |-> "Call", id |-> 268, line |-> 4, arguments |-> <<>>,
                 callee |-> [k |-> "Get", id |-> 267, name |-> "t", line |-> 4,
                             object |-> [k |-> "Call", id |-> 266, line |-> 4, arguments |-> <<>>,
                                         callee |-> [k |-> "Variable", id |-> 265, name |-> "B", line |-> 4]]]]]>>

\* super.m where no class defines m
\*   class A { }
\*   class B < A { t() { return super.nope; } }
\*   print B().t();
ProgSuperMissing ==
    <<
      [k |-> "Class", sid |-> 270, name |-> "A", line |-> 1, superclass |-> None, methods |-> <<>>],
      [k |-> "Class", sid |-> 275, name |-> "B", line |-> 2,
       superclass |-> [k |-> "Variable", id |-> 271, name |-> "A", line |-> 2],
       methods |-> <<
                     [k |-> "Function", sid |-> 274, name |-> "t", line |-> 2, params |-> <<>>,
                      body |-> <<
                                 [k |-> "Return", sid |-> 273, line |-> 2,
                                  value |-> [k |-> "Super", id |-> 272, name |-> "super", method |-> "nope", line |-> 2]]>>]>>],
      [k |-> "Print", sid |-> 280,
       expr |-> [k |-> "Call", id |-> 279, line |-> 3, arguments |-> <<>>,
                 callee |-> [k |-> "Get", id |-> 278, name |-> "t", line |-> 3,
                             object |-> [k |-> "Call", id |-> 277, line |-> 3, arguments |-> <<>>,
                                         callee |-> [k |-> "Variable", id |-> 276, name |-> "B", line |-> 3]]]]]>>

\* or / and with operands that have side effects
\*   var n = 0;
\*   fun bump(v) { n = n + 1; return v; }
\*   print bump($a) or bump($b);
\*   print bump($a) and bump($b);
\*   print n;
ProgLogical(a, b) ==
    <<
      [k |-> "Var", sid |-> 282, name |-> "n", line |-> 1,
       initializer |-> [k |-> "Literal", id |-> 281, value |-> Number(0)]],
      [k |-> "Function", sid |-> 291, name |-> "bump", line |-> 2, params |-> <<"v">>,
       body |-> <<
                  [k |-> "Expression", sid |-> 288,
                   expr |-> [k |-> "Assign", id |-> 287, name |-> "n", line |-> 2,
                             value |-> [k |-> "Binary", id |-> 286, operator |-> "Plus", line |-> 2,
                                        left |-> [k |-> "Variable", id |-> 284, name |-> "n", line |-> 2],
                                        right |-> [k |-> "Literal", id |-> 285, value |-> Number(1)]]]],
                  [k |-> "Return", sid |-> 290, line |-> 2,
                   value |-> [k |-> "Variable", id |-> 289, name |-> "v", line |-> 2]]>>],
      [k |-> "Print", sid |-> 299,
       expr |-> [k |-> "Logical", id |-> 298, operator |-> "Or", line |-> 3,
                 left |-> [k |-> "Call", id |-> 294, line |-> 3,
                           callee |-> [k |-> "Variable", id |-> 292, name |-> "bump", line |-> 3],
                           arguments |-> <<
                                           [k |-> "Literal", id |-> 293, value |-> a]>>],
                 right |-> [k |-> "Call", id |-> 297, line |-> 3,
                            callee |-> [k |-> "Variable", id |-> 295, name |-> "bump", line |-> 3],
                            arguments |-> <<
                                            [k |-> "Literal", id |-> 296, value |-> b]>>]]],
      [k |-> "Print", sid |-> 307,
       expr |-> [k |-> "Logical", id |-> 306, operator |-> "And", line |-> 4,
                 left |-> [k |-> "Call", id |-> 302, line |-> 4,
                           callee |-> [k |-> "Variable", id |-> 300, name |-> "bump", line |-> 4],
                           arguments |-> <<
                                           [k |-> "Literal", id |-> 301, value |-> a]>>],
                 right |-> [k |-> "Call", id |-> 305, line |-> 4,
                            callee |-> [k |-> "Variable", id |-> 303, name |-> "bump", line |-> 4],
                            arguments |-> <<
                                            [k |-> "Literal", id |-> 304, value |-> b]>>]]],
      [k |-> "Print", sid |-> 309,
       expr |-> [k |-> "Variable", id |-> 308, name |-> "n", line |-> 5]]>>

\* callee and arguments are evaluated in order; then the callee is not callable
\*   var log = "";
\*   fun t(x) { log = log + x; return x; }
\*   fun f(a, b) { return a + b; }
\*   print f(t("1"), t("2"));
\*   print log;
\*   t($c)(t("3"), t("4"));
\*   print "unreachable";
ProgCallOrder(c) ==
    <<
      [k |-> "Var", sid |-> 311, name |-> "log", line |-> 1,
       initializer |-> [k |-> "Literal", id |-> 310, value |-> String("")]],
      [k |-> "Function", sid |-> 320, name |-> "t", line |-> 2, params |-> <<"x">>,
       body |-> <<
                  [k |-> "Expression", sid |-> 317,
                   expr |-> [k |-> "Assign", id |-> 316, name |-> "log", line |-> 2,
                             value |-> [k |-> "Binary", id |-> 315, operator |-> "Plus", line |-> 2,
                                        left |-> [k |-> "Variable", id |-> 313, name |-> "log", line |-> 2],
                                        right |-> [k |-> "Variable", id |-> 314, name |-> "x", line |-> 2]]]],
                  [k |-> "Return", sid |-> 319, line |-> 2,
                   value |-> [k |-> "Variable", id |-> 318, name |-> "x", line |-> 2]]>>],
      [k |-> "Function", sid |-> 325, name |-> "f", line |-> 3, params |-> <<"a", "b">>,
       body |-> <<
                  [k |-> "Return", sid |-> 324, line |-> 3,
                   value |-> [k |-> "Binary", id |-> 323, operator |-> "Plus", line |-> 3,
                              left |-> [k |-> "Variable", id |-> 321, name |-> "a", line |-> 3],
                              right |-> [k |-> "Variable", id |-> 322, name |-> "b", line |-> 3]]]>>],
      [k |-> "Print", sid |-> 334,
       expr |-> [k |-> "Call", id |-> 333, line |-> 4,
                 callee |-> [k |-> "Variable", id |-> 326, name |-> "f", line |-> 4],
                 arguments |-> <<
                                 [k |-> "Call", id |-> 329, line |-> 4,
                                  callee |-> [k |-> "Variable", id |-> 327, name |-> "t", line |-> 4],
                                  arguments |-> <<
                                                  [k |-> "Literal", id |-> 328, value |-> String("1")]>>],
                                 [k |-> "Call", id |-> 332, line |-> 4,
                                  callee |-> [k |-> "Variable", id |-> 330, name |-> "t", line |-> 4],
                                  arguments |-> <<
                                                  [k |-> "Literal", id |-> 331, value |-> String("2")]>>]>>]],
      [k |-> "Print", sid |-> 336,
       expr |-> [k |-> "Variable", id |-> 335, name |-> "log", line |-> 5]],
      [k |-> "Expression", sid |-> 347,
       expr |-> [k |-> "Call", id |-> 346, line |-> 6,
                 callee |-> [k |-> "Call", id |-> 339, line |-> 6,
                             callee |-> [k |-> "Variable", id |-> 337, name |-> "t", line |-> 6],
                             arguments |-> <<
                                             [k |-> "Literal", id |-> 338, value |-> c]>>],
                 arguments |-> <<
                                 [k |-> "Call", id |-> 342, line |-> 6,
                                  callee |-> [k |-> "Variable", id |-> 340, name |-> "t", line |-> 6],
                                  arguments |-> <<
                                                  [k |-> "Literal", id |-> 341, value |-> String("3")]>>],
                                 [k |-> "Call", id |-> 345, line |-> 6,
                                  callee |-> [k |-> "Variable", id |-> 343, name |-> "t", line |-> 6],
                                  arguments |-> <<
                                                  [k |-> "Literal", id |-> 344, value |-> String("4")]>>]>>]],
      [k |-> "Print", sid |-> 349,
       expr |-> [k |-> "Literal", id |-> 348, value |-> String("unreachable")]]>>

\* one argument for two parameters
\*   var log = "";
\*   fun t(x) { log = log + x; return x; }
\*   fun f(a, b) { print "unreachable"; }
\*   f(t("1"));
ProgArityFunction ==
    <<
      [k |-> "Var", sid |-> 351, name |-> "log", line |-> 1,
       initializer |-> [k |-> "Literal", id |-> 350, value |-> String("")]],
      [k |-> "Function", sid |-> 360, name |-> "t", line |-> 2, params |-> <<"x">>,
       body |-> <<
                  [k |-> "Expression", sid |-> 357,
                   expr |-> [k |-> "Assign", id |-> 356, name |-> "log", line |-> 2,
                             value |-> [k |-> "Binary", id |-> 355, operator |-> "Plus", line |-> 2,
                                        left |-> [k |-> "Variable", id |-> 353, name |-> "log", line |-> 2],
                                        right |-> [k |-> "Variable", id |-> 354, name |-> "x", line |-> 2]]]],
                  [k |-> "Return", sid |-> 359, line |-> 2,
                   value |-> [k |-> "Variable", id |-> 358, name |-> "x", line |-> 2]]>>],
      [k |-> "Function", sid |-> 363, name |-> "f", line |-> 3, params |-> <<"a", "b">>,
       body |-> <<
                  [k |-> "Print", sid |-> 362,
                   expr |-> [k |-> "Literal", id |-> 361, value |-> String("unreachable")]]>>],
      [k |-> "Expression", sid |-> 369,
       expr |-> [k |-> "Call", id |-> 368, line |-> 4,
                 callee |-> [k |-> "Variable", id |-> 364, name |-> "f", line |-> 4],
                 arguments |-> <<
                                 [k |-> "Call", id |-> 367, line |-> 4,
                                  callee |-> [k |-> "Variable", id |-> 365, name |-> "t", line |-> 4],
                                  arguments |-> <<
                                                  [k |-> "Literal", id |-> 366, value |-> String("1")]>>]>>]]>>

\* a class's arity is its initializer's
\*   class K { init(a) { this.a = a; } }
\*   var k = K(1);
\*   print k.a;
\*   class E { }
\*   print E();
\*   K();
ProgArityClass ==
    <<
      [k |-> "Class", sid |-> 376, name |-> "K", line |-> 1, superclass |-> None,
       methods |-> <<
                     [k |-> "Function", sid |-> 375, name |-> "init", line |-> 1, params |-> <<"a">>,
                      body |-> <<
                                 [k |-> "Expression", sid |-> 374,
                                  expr |-> [k |-> "Set", id |-> 373, name |-> "a", line |-> 1,
                                            object |-> [k |-> "This", id |-> 370, name |-> "this", line |-> 1],
                                            value |-> [k |-> "Variable", id |-> 372, name |-> "a", line |-> 1]]]>>]>>],
      [k |-> "Var", sid |-> 380, name |-> "k", line |-> 2,
       initializer |-> [k |-> "Call", id |-> 379, line |-> 2,
                        callee |-> [k |-> "Variable", id |-> 377, name |-> "K", line |-> 2],
                        arguments |-> <<
                                        [k |-> "Literal", id |-> 378, value |-> Number(1)]>>]],
      [k |-> "Print", sid |-> 383,
       expr |-> [k |-> "Get", id |-> 382, name |-> "a", line |-> 3,
                 object |-> [k |-> "Variable", id |-> 381, name |-> "k", line |-> 3]]],
      [k |-> "Class", sid |-> 384, name |-> "E", line |-> 4, superclass |-> None, methods |-> <<>>],
      [k |-> "Print", sid |-> 387,
       expr |-> [k |-> "Call", id |-> 386, line |-> 5, arguments |-> <<>>,
                 callee |-> [k |-> "Variable", id |-> 385, name |-> "E", line |-> 5]]],
      [k |-> "Expression", sid |-> 390,
       expr |-> [k |-> "Call", id |-> 389, line |-> 6, arguments |-> <<>>,
                 callee |-> [k |-> "Variable", id |-> 388, name |-> "K", line |-> 6]]]>>

\* a class without initializer takes no arguments
\*   class E { }
\*   E(1);
ProgArityNoInit ==
    <<
      [k |-> "Class", sid |-> 391, name |-> "E", line |-> 1, superclass |-> None, methods |-> <<>>],
      [k |-> "Expression", sid |-> 395,
       expr |-> [k |-> "Call", id |-> 394, line |-> 2,
                 callee |-> [k |-> "Variable", id |-> 392, name |-> "E", line |-> 2],
                 arguments |-> <<
                                 [k |-> "Literal", id |-> 393, value |-> Number(1)]>>]]>>

\*   print clock() >= 0;
\*   print -clock() < 0;
\*   print !clock;
ProgClock ==
    <<
      [k |-> "Print", sid |-> 400,
       expr |-> [k |-> "Binary", id |-> 399, operator |-> "GreaterEqual", line |-> 1,
                 left |-> [k |-> "Call", id |-> 397, line |-> 1, arguments |-> <<>>,
                           callee |-> [k |-> "Variable", id |-> 396, name |-> "clock", line |-> 1]],
                 right |-> [k |-> "Literal", id |-> 398, value |-> Number(0)]]],
      [k |-> "Print", sid |-> 406,
       expr |-> [k |-> "Binary", id |-> 405, operator |-> "Less", line |-> 2,
                 left |-> [k |-> "Unary", id |-> 403, operator |-> "Minus", line |-> 2,
                           right |-> [k |-> "Call", id |-> 402, line |-> 2, arguments |-> <<>>,
                                      callee |-> [k |-> "Variable", id |-> 401, name |-> "clock", line |-> 2]]],
                 right |-> [k |-> "Literal", id |-> 404, value |-> Number(0)]]],
      [k |-> "Print", sid |-> 409,
       expr |-> [k |-> "Unary", id |-> 408, operator |-> "Bang", line |-> 3,
                 right |-> [k |-> "Variable", id |-> 407, name |-> "clock", line |-> 3]]]>>

\* the resolver rejects a return at top level
\*   print "before";
\*   return 1;
ProgTopReturn ==
    <<
      [k |-> "Print", sid |-> 411,
       expr |-> [k |-> "Literal", id |-> 410, value |-> String("before")]],
      [k |-> "Return", sid |-> 413, line |-> 2,
       value |-> [k |-> "Literal", id |-> 412, value |-> Number(1)]]>>

\* a runtime error inside nested calls and blocks
\*   var g = "kept";
\*   fun f() { { var x = 1; { return x + nil; } } }
\*   class T { m() { { f(); } } }
\*   { var y = 2; T().m(); }
\*   print "unreachable";
ProgNested ==
    <<
      [k |-> "Var", sid |-> 415, name |-> "g", line |-> 1,
       initializer |-> [k |-> "Literal", id |-> 414, value |-> String("kept")]],
      [k |-> "Function", sid |-> 424, name |-> "f", line |-> 2, params |-> <<>>,
       body |-> <<
                  [k |-> "Block", sid |-> 423,
                   statements |-> <<
                                    [k |-> "Var", sid |-> 417, name |-> "x", line |-> 2,
                                     initializer |-> [k |-> "Literal", id |-> 416, value |-> Number(1)]],
                                    [k |-> "Block", sid |-> 422,
                                     statements |-> <<
                                                      [k |-> "Return", sid |-> 421, line |-> 2,
                                                       value |-> [k |-> "Binary", id |-> 420, operator |-> "Plus", line |-> 2,
                                                                  left |-> [k |-> "Variable", id |-> 418, name |-> "x", line |-> 2],
                                                                  right |-> [k |-> "Literal", id |-> 419, value |-> Nil]]]>>]>>]>>],
      [k |-> "Class", sid |-> 430, name |-> "T", line |-> 3, superclass |-> None,
       methods |-> <<
                     [k |-> "Function", sid |-> 429, name |-> "m", line |-> 3, params |-> <<>>,
                      body |-> <<
                                 [k |-> "Block", sid |-> 428,
                                  statements |-> <<
                                                   [k |-> "Expression", sid |-> 427,
                                                    expr |-> [k |-> "Call", id |-> 426, line |-> 3, arguments |-> <<>>,
                                                              callee |-> [k |-> "Variable", id |-> 425, name |-> "f", line |-> 3]]]>>]>>]>>],
      [k |-> "Block", sid |-> 438,
       statements |-> <<
                        [k |-> "Var", sid |-> 432, name |-> "y", line |-> 4,
                         initializer |-> [k |-> "Literal", id |-> 431, value |-> Number(2)]],
                        [k |-> "Expression", sid |-> 437,
                         expr |-> [k |-> "Call", id |-> 436, line |-> 4, arguments |-> <<>>,
                                   callee |-> [k |-> "Get", id |-> 435, name |-> "m", line |-> 4,
                                               object |-> [k |-> "Call", id |-> 434, line |-> 4, arguments |-> <<>>,
                                                           callee |-> [k |-> "Variable", id |-> 433, name |-> "T", line |-> 4]]]]]>>],
      [k |-> "Print", sid |-> 440,
       expr |-> [k |-> "Literal", id |-> 439, value |-> String("unreachable")]]>>

\* uses what earlier programs of the session left in the globals
\*   var z = 1;
\*   z = z + 1;
\*   print z;
\*   print get();
\*   print a;
ProgProbe ==
    <<
      [k |-> "Var", sid |-> 601, name |-> "z", line |-> 1,
       initializer |-> [k |-> "Literal", id |-> 600, value |-> Number(1)]],
      [k |-> "Expression", sid |-> 607,
       expr |-> [k |-> "Assign", id |-> 606, name |-> "z", line |-> 2,
                 value |-> [k |-> "Binary", id |-> 605, operator |-> "Plus", line |-> 2,
                            left |-> [k |-> "Variable", id |-> 603, name |-> "z", line |-> 2],
                            right |-> [k |-> "Literal", id |-> 604, value |-> Number(1)]]]],
      [k |-> "Print", sid |-> 609,
       expr |-> [k |-> "Variable", id |-> 608, name |-> "z", line |-> 3]],
      [k |-> "Print", sid |-> 612,
       expr |-> [k |-> "Call", id |-> 611, line |-> 4, arguments |-> <<>>,
                 callee |-> [k |-> "Variable", id |-> 610, name |-> "get", line |-> 4]]],
      [k |-> "Print", sid |-> 614,
       expr |-> [k |-> "Variable", id |-> 613, name |-> "a", line |-> 5]]>>

\* a runtime error in a loop, in a method of a subclass, called from a function in a block
\*   var g = "kept";
\*   var count = 0;
\*   class A { }
\*   class B < A { m(x) { while (count < 3) { count = count + 1; if (count > 1) { -x; } } } }
\*   fun f() { { B().m("s"); } }
\*   { var y = 2; f(); }
\*   print "unreachable";
\*   var h = 4;
ProgErrorLoop ==
    <<
      [k |-> "Var", sid |-> 701, name |-> "g", line |-> 1,
       initializer |-> [k |-> "Literal", id |-> 700, value |-> String("kept")]],
      [k |-> "Var", sid |-> 703, name |-> "count", line |-> 2,
       initializer |-> [k |-> "Literal", id |-> 702, value |-> Number(0)]],
      [k |-> "Class", sid |-> 704, name |-> "A", line |-> 3, superclass |-> None, methods |-> <<>>],
      [k |-> "Class", sid |-> 726, name |-> "B", line |-> 4,
       superclass |-> [k |-> "Variable", id |-> 705, name |-> "A", line |-> 4],
       methods |-> <<
                     [k |-> "Function", sid |-> 725, name |-> "m", line |-> 4, params |-> <<"x">>,
                      body |-> <<
                                 [k |-> "While", sid |-> 724,
                                  condition |-> [k |-> "Binary", id |-> 708, operator |-> "Less", line |-> 4,
                                                 left |-> [k |-> "Variable", id |-> 706, name |-> "count", line |-> 4],
                                                 right |-> [k |-> "Literal", id |-> 707, value |-> Number(3)]],
                                  body |-> [k |-> "Block", sid |-> 723,
                                            statements |-> <<
                                                             [k |-> "Expression", sid |-> 714,
                                                              expr |-> [k |-> "Assign", id |-> 713, name |-> "count", line |-> 4,
                                                                        value |-> [k |-> "Binary", id |-> 712, operator |-> "Plus", line |-> 4,
                                                                                   left |-> [k |-> "Variable", id |-> 710, name |-> "count", line |-> 4],
                                                                                   right |-> [k |-> "Literal", id |-> 711, value |-> Number(1)]]]],
                                                             [k |-> "If", sid |-> 722, else_branch |-> None,
                                                              condition |-> [k |-> "Binary", id |-> 717, operator |-> "Greater", line |-> 4,
                                                                             left |-> [k |-> "Variable", id |-> 715, name |-> "count", line |-> 4],
                                                                             right |-> [k |-> "Literal", id |-> 716, value |-> Number(1)]],
                                                              then_branch |-> [k |-> "Block", sid |-> 721,
                                                                               statements |-> <<
                                                                                                [k |-> "Expression", sid |-> 720,
                                                                                                 expr |-> [k |-> "Unary", id |-> 719, operator |-> "Minus", line |-> 4,
                                                                                                           right |-> [k |-> "Variable", id |-> 718, name |-> "x", line |-> 4]]]>>]]>>]]>>]>>],
      [k |-> "Function", sid |-> 734, name |-> "f", line |-> 5, params |-> <<>>,
       body |-> <<
                  [k |-> "Block", sid |-> 733,
                   statements |-> <<
                                    [k |-> "Expression", sid |-> 732,
                                     expr |-> [k |-> "Call", id |-> 731, line |-> 5,
                                               callee |-> [k |-> "Get", id |-> 729, name |-> "m", line |-> 5,
                                                           object |-> [k |-> "Call", id |-> 728, line |-> 5, arguments |-> <<>>,
                                                                       callee |-> [k |-> "Variable", id |-> 727, name |-> "B", line |-> 5]]],
                                               arguments |-> <<
                                                               [k |-> "Literal", id |-> 730, value |-> String("s")]>>]]>>]>>],
      [k |-> "Block", sid |-> 740,
       statements |-> <<
                        [k |-> "Var", sid |-> 736, name |-> "y", line |-> 6,
                         initializer |-> [k |-> "Literal", id |-> 735, value |-> Number(2)]],
                        [k |-> "Expression", sid |-> 739,
                         expr |-> [k |-> "Call", id |-> 738, line |-> 6, arguments |-> <<>>,
                                   callee |-> [k |-> "Variable", id |-> 737, name |-> "f", line |-> 6]]]>>],
      [k |-> "Print", sid |-> 742,
       expr |-> [k |-> "Literal", id |-> 741, value |-> String("unreachable")]],
      [k |-> "Var", sid |-> 744, name |-> "h", line |-> 8,
       initializer |-> [k |-> "Literal", id |-> 743, value |-> Number(4)]]>>

\* a superclass that is not a class, in a class declaration inside a block
\*   var g = "kept";
\*   { var y = 2; { class C < y { } } }
\*   print "unreachable";
ProgErrorClass ==
    <<
      [k |-> "Var", sid |-> 746, name |-> "g", line |-> 1,
       initializer |-> [k |-> "Literal", id |-> 745, value |-> String("kept")]],
      [k |-> "Block", sid |-> 752,
       statements |-> <<
                        [k |-> "Var", sid |-> 748, name |-> "y", line |-> 2,
                         initializer |-> [k |-> "Literal", id |-> 747, value |-> Number(2)]],
                        [k |-> "Block", sid |-> 751,
                         statements |-> <<
                                          [k |-> "Class", sid |-> 750, name |-> "C", line |-> 2, methods |-> <<>>,
                                           superclass |-> [k |-> "Variable", id |-> 749, name |-> "y", line |-> 2]]>>]>>],
      [k |-> "Print", sid |-> 754,
       expr |-> [k |-> "Literal", id |-> 753, value |-> String("unreachable")]]>>

\* reads the globals that the program before it left
\*   print g;
\*   g = g + "!";
\*   { var g = "inner"; print g; }
\*   var h = 1;
\*   print h;
\*   print g;
ProgAfter ==
    <<
      [k |-> "Print", sid |-> 756,
       expr |-> [k |-> "Variable", id |-> 755, name |-> "g", line |-> 1]],
      [k |-> "Expression", sid |-> 762,
       expr |-> [k |-> "Assign", id |-> 761, name |-> "g", line |-> 2,
                 value |-> [k |-> "Binary", id |-> 760, operator |-> "Plus", line |-> 2,
                            left |-> [k |-> "Variable", id |-> 758, name |-> "g", line |-> 2],
                            right |-> [k |-> "Literal", id |-> 759, value |-> String("!")]]]],
      [k |-> "Block", sid |-> 767,
       statements |-> <<
                        [k |-> "Var", sid |-> 764, name |-> "g", line |-> 3,
                         initializer |-> [k |-> "Literal", id |-> 763, value |-> String("inner")]],
                        [k |-> "Print", sid |-> 766,
                         expr |-> [k |-> "Variable", id |-> 765, name |-> "g", line |-> 3]]>>],
      [k |-> "Var", sid |-> 769, name |-> "h", line |-> 4,
       initializer |-> [k |-> "Literal", id |-> 768, value |-> Number(1)]],
      [k |-> "Print", sid |-> 771,
       expr |-> [k |-> "Variable", id |-> 770, name |-> "h", line |-> 5]],
      [k |-> "Print", sid |-> 773,
       expr |-> [k |-> "Variable", id |-> 772, name |-> "g", line |-> 6]]>>

\* == and != on classes, functions, instances
\*   class A {}
\*   class B {}
\*   fun f() {}
\*   fun g() {}
\*   var a = A();
\*   var b = A();
\*   print A == A;
\*   print f == f;
\*   print a == a;
\*   print a == b;
\*   print A == B;
\*   print f == g;
\*   print A != A;
\*   print a != b;
\*   print 1 != 1;
ProgEquals ==
    <<
      [k |-> "Class", sid |-> 800, name |-> "A", line |-> 1, superclass |-> None, methods |-> <<>>],
      [k |-> "Class", sid |-> 801, name |-> "B", line |-> 2, superclass |-> None, methods |-> <<>>],
      [k |-> "Function", sid |-> 802, name |-> "f", line |-> 3, params |-> <<>>, body |-> <<>>],
      [k |-> "Function", sid |-> 803, name |-> "g", line |-> 4, params |-> <<>>, body |-> <<>>],
      [k |-> "Var", sid |-> 806, name |-> "a", line |-> 5,
       initializer |-> [k |-> "Call", id |-> 805, line |-> 5, arguments |-> <<>>,
                        callee |-> [k |-> "Variable", id |-> 804, name |-> "A", line |-> 5]]],
      [k |-> "Var", sid |-> 809, name |-> "b", line |-> 6,
       initializer |-> [k |-> "Call", id |-> 808, line |-> 6, arguments |-> <<>>,
                        callee |-> [k |-> "Variable", id |-> 807, name |-> "A", line |-> 6]]],
      [k |-> "Print", sid |-> 813,
       expr |-> [k |-> "Binary", id |-> 812, operator |-> "EqualEqual", line |-> 7,
                 left |-> [k |-> "Variable", id |-> 810, name |-> "A", line |-> 7],
                 right |-> [k |-> "Variable", id |-> 811, name |-> "A", line |-> 7]]],
      [k |-> "Print", sid |-> 817,
       expr |-> [k |-> "Binary", id |-> 816, operator |-> "EqualEqual", line |-> 8,
                 left |-> [k |-> "Variable", id |-> 814, name |-> "f", line |-> 8],
                 right |-> [k |-> "Variable", id |-> 815, name |-> "f", line |-> 8]]],
      [k |-> "Print", sid |-> 821,
       expr |-> [k |-> "Binary", id |-> 820, operator |-> "EqualEqual", line |-> 9,
                 left |-> [k |-> "Variable", id |-> 818, name |-> "a", line |-> 9],
                 right |-> [k |-> "Variable", id |-> 819, name |-> "a", line |-> 9]]],
      [k |-> "Print", sid |-> 825,
       expr |-> [k |-> "Binary", id |-> 824, operator |-> "EqualEqual", line |-> 10,
                 left |-> [k |-> "Variable", id |-> 822, name |-> "a", line |-> 10],
                 right |-> [k |-> "Variable", id |-> 823, name |-> "b", line |-> 10]]],
      [k |-> "Print", sid |-> 829,
       expr |-> [k |-> "Binary", id |-> 828, operator |-> "EqualEqual", line |-> 11,
                 left |-> [k |-> "Variable", id |-> 826, name |-> "A", line |-> 11],
                 right |-> [k |-> "Variable", id |-> 827, name |-> "B", line |-> 11]]],
      [k |-> "Print", sid |-> 833,
       expr |-> [k |-> "Binary", id |-> 832, operator |-> "EqualEqual", line |-> 12,
                 left |-> [k |-> "Variable", id |-> 830, name |-> "f", line |-> 12],
                 right |-> [k |-> "Variable", id |-> 831, name |-> "g", line |-> 12]]],
      [k |-> "Print", sid |-> 837,
       expr |-> [k |-> "Binary", id |-> 836, operator |-> "BangEqual", line |-> 13,
                 left |-> [k |-> "Variable", id |-> 834, name |-> "A", line |-> 13],
                 right |-> [k |-> "Variable", id |-> 835, name |-> "A", line |-> 13]]],
      [k |-> "Print", sid |-> 841,
       expr |-> [k |-> "Binary", id |-> 840, operator |-> "BangEqual", line |-> 14,
                 left |-> [k |-> "Variable", id |-> 838, name |-> "a", line |-> 14],
                 right |-> [k |-> "Variable", id |-> 839, name |-> "b", line |-> 14]]],
      [k |-> "Print", sid |-> 845,
       expr |-> [k |-> "Binary", id |-> 844, operator |-> "BangEqual", line |-> 15,
                 left |-> [k |-> "Literal", id |-> 842, value |-> Number(1)],
                 right |-> [k |-> "Literal", id |-> 843, value |-> Number(1)]]]>>

\* bound methods stored in variables and fields, and a field shadowing a method
\*   class A {
\*     init(n) { this.n = n; }
\*     get() { return this.n; }
\*     set(v) { this.n = v; return this; }
\*     m() { return "method"; }
\*   }
\*   var a = A("a");
\*   var b = A("b");
\*   var ga = a.get;
\*   var gb = b.get;
\*   print ga();
\*   print gb();
\*   b.g = a.get;
\*   print b.g();
\*   var sa = a.set;
\*   var sb = b.set;
\*   sa("a2");
\*   print a.n;
\*   print b.n;
\*   print ga();
\*   a.m = "field";
\*   print a.m;
\*   print b.m();
ProgBound ==
    <<
      [k |-> "Class", sid |-> 921, name |-> "A", line |-> 1, superclass |-> None,
       methods |-> <<
                     [k |-> "Function", sid |-> 905, name |-> "init", line |-> 2, params |-> <<"n">>,
                      body |-> <<
                                 [k |-> "Expression", sid |-> 904,
                                  expr |-> [k |-> "Set", id |-> 903, name |-> "n", line |-> 2,
                                            object |-> [k |-> "This", id |-> 900, name |-> "this", line |-> 2],
                                            value |-> [k |-> "Variable", id |-> 902, name |-> "n", line |-> 2]]]>>],
                     [k |-> "Function", sid |-> 909, name |-> "get", line |-> 3, params |-> <<>>,
                      body |-> <<
                                 [k |-> "Return", sid |-> 908, line |-> 3,
                                  value |-> [k |-> "Get", id |-> 907, name |-> "n", line |-> 3,
                                             object |-> [k |-> "This", id |-> 906, name |-> "this", line |-> 3]]]>>],
                     [k |-> "Function", sid |-> 917, name |-> "set", line |-> 4, params |-> <<"v">>,
                      body |-> <<
                                 [k |-> "Expression", sid |-> 914,
                                  expr |-> [k |-> "Set", id |-> 913, name |-> "n", line |-> 4,
                                            object |-> [k |-> "This", id |-> 910, name |-> "this", line |-> 4],
                                            value |-> [k |-> "Variable", id |-> 912, name |-> "v", line |-> 4]]],
                                 [k |-> "Return", sid |-> 916, line |-> 4,
                                  value |-> [k |-> "This", id |-> 915, name |-> "this", line |-> 4]]>>],
                     [k |-> "Function", sid |-> 920, name |-> "m", line |-> 5, params |-> <<>>,
                      body |-> <<
                                 [k |-> "Return", sid |-> 919, line |-> 5,
                                  value |-> [k |-> "Literal", id |-> 918, value |-> String("method")]]>>]>>],
      [k |-> "Var", sid |-> 925, name |-> "a", line |-> 7,
       initializer |-> [k |-> "Call", id |-> 924, line |-> 7,
                        callee |-> [k |-> "Variable", id |-> 922, name |-> "A", line |-> 7],
                        arguments |-> <<
                                        [k |-> "Literal", id |-> 923, value |-> String("a")]>>]],
      [k |-> "Var", sid |-> 929, name |-> "b", line |-> 8,
       initializer |-> [k |-> "Call", id |-> 928, line |-> 8,
                        callee |-> [k |-> "Variable", id |-> 926, name |-> "A", line |-> 8],
                        arguments |-> <<
                                        [k |-> "Literal", id |-> 927, value |-> String("b")]>>]],
      [k |-> "Var", sid |-> 932, name |-> "ga", line |-> 9,
       initializer |-> [k |-> "Get", id |-> 931, name |-> "get", line |-> 9,
                        object |-> [k |-> "Variable", id |-> 930, name |-> "a", line |-> 9]]],
      [k |-> "Var", sid |-> 935, name |-> "gb", line |-> 10,
       initializer |-> [k |-> "Get", id |-> 934, name |-> "get", line |-> 10,
                        object |-> [k |-> "Variable", id |-> 933, name |-> "b", line |-> 10]]],
      [k |-> "Print", sid |-> 938,
       expr |-> [k |-> "Call", id |-> 937, line |-> 11, arguments |-> <<>>,
                 callee |-> [k |-> "Variable", id |-> 936, name |-> "ga", line |-> 11]]],
      [k |-> "Print", sid |-> 941,
       expr |-> [k |-> "Call", id |-> 940, line |-> 12, arguments |-> <<>>,
                 callee |-> [k |-> "Variable", id |-> 939, name |-> "gb", line |-> 12]]],
      [k |-> "Expression", sid |-> 947,
       expr |-> [k |-> "Set", id |-> 946, name |-> "g", line |-> 13,
                 object |-> [k |-> "Variable", id |-> 942, name |-> "b", line |-> 13],
                 value |-> [k |-> "Get", id |-> 945, name |-> "get", line |-> 13,
                            object |-> [k |-> "Variable", id |-> 944, name |-> "a", line |-> 13]]]],
      [k |-> "Print", sid |-> 951,
       expr |-> [k |-> "Call", id |-> 950, line |-> 14, arguments |-> <<>>,
                 callee |-> [k |-> "Get", id |-> 949, name |-> "g", line |-> 14,
                             object |-> [k |-> "Variable", id |-> 948, name |-> "b", line |-> 14]]]],
      [k |-> "Var", sid |-> 954, name |-> "sa", line |-> 15,
       initializer |-> [k |-> "Get", id |-> 953, name |-> "set", line |-> 15,
                        object |-> [k |-> "Variable", id |-> 952, name |-> "a", line |-> 15]]],
      [k |-> "Var", sid |-> 957, name |-> "sb", line |-> 16,
       initializer |-> [k |-> "Get", id |-> 956, name |-> "set", line |-> 16,
                        object |-> [k |-> "Variable", id |-> 955, name |-> "b", line |-> 16]]],
      [k |-> "Expression", sid |-> 961,
       expr |-> [k |-> "Call", id |-> 960, line |-> 17,
                 callee |-> [k |-> "Variable", id |-> 958, name |-> "sa", line |-> 17],
                 arguments |-> <<
                                 [k |-> "Literal", id |-> 959, value |-> String("a2")]>>]],
      [k |-> "Print", sid |-> 964,
       expr |-> [k |-> "Get", id |-> 963, name |-> "n", line |-> 18,
                 object |-> [k |-> "Variable", id |-> 962, name |-> "a", line |-> 18]]],
      [k |-> "Print", sid |-> 967,
       expr |-> [k |-> "Get", id |-> 966, name |-> "n", line |-> 19,
                 object |-> [k |-> "Variable", id |-> 965, name |-> "b", line |-> 19]]],
      [k |-> "Print", sid |-> 970,
       expr |-> [k |-> "Call", id |-> 969, line |-> 20, arguments |-> <<>>,
                 callee |-> [k |-> "Variable", id |-> 968, name |-> "ga", line |-> 20]]],
      [k |-> "Expression", sid |-> 975,
       expr |-> [k |-> "Set", id |-> 974, name |-> "m", line |-> 21,
                 object |-> [k |-> "Variable", id |-> 971, name |-> "a", line |-> 21],
                 value |-> [k |-> "Literal", id |-> 973, value |-> String("field")]]],
      [k |-> "Print", sid |-> 978,
       expr |-> [k |-> "Get", id |-> 977, name |-> "m", line |-> 22,
                 object |-> [k |-> "Variable", id |-> 976, name |-> "a", line |-> 22]]],
      [k |-> "Print", sid |-> 982,
       expr |-> [k |-> "Call", id |-> 981, line |-> 23, arguments |-> <<>>,
                 callee |-> [k |-> "Get", id |-> 980, name |-> "m", line |-> 23,
                             object |-> [k |-> "Variable", id |-> 979, name |-> "b", line |-> 23]]]]>>

\* this and super outside the classes that give them a meaning, between classes that do
\*   print this;
\*   fun f() { return this; }
\*   class A { m() { return this; } n() { fun g() { return this; } } }
\*   fun h() { return this; }
\*   class B { m() { super.m(); } }
\*   class C < A { m() { fun k() { super.m(); } class D { } return this; } }
\*   fun s() { super.m(); }
\*   super.m();
ProgThisSuper ==
    <<
      [k |-> "Print", sid |-> 1001,
       expr |-> [k |-> "This", id |-> 1000, name |-> "this", line |-> 1]],
      [k |-> "Function", sid |-> 1004, name |-> "f", line |-> 2, params |-> <<>>,
       body |-> <<
                  [k |-> "Return", sid |-> 1003, line |-> 2,
                   value |-> [k |-> "This", id |-> 1002, name |-> "this", line |-> 2]]>>],
      [k |-> "Class", sid |-> 1012, name |-> "A", line |-> 3, superclass |-> None,
       methods |-> <<
                     [k |-> "Function", sid |-> 1007, name |-> "m", line |-> 3, params |-> <<>>,
                      body |-> <<
                                 [k |-> "Return", sid |-> 1006, line |-> 3,
                                  value |-> [k |-> "This", id |-> 1005, name |-> "this", line |-> 3]]>>],
                     [k |-> "Function", sid |-> 1011, name |-> "n", line |-> 3, params |-> <<>>,
                      body |-> <<
                                 [k |-> "Function", sid |-> 1010, name |-> "g", line |-> 3, params |-> <<>>,
                                  body |-> <<
                                             [k |-> "Return", sid |-> 1009, line |-> 3,
                                              value |-> [k |-> "This", id |-> 1008, name |-> "this", line |-> 3]]>>]>>]>>],
      [k |-> "Function", sid |-> 1015, name |-> "h", line |-> 4, params |-> <<>>,
       body |-> <<
                  [k |-> "Return", sid |-> 1014, line |-> 4,
                   value |-> [k |-> "This", id |-> 1013, name |-> "this", line |-> 4]]>>],
      [k |-> "Class", sid |-> 1020, name |-> "B", line |-> 5, superclass |-> None,
       methods |-> <<
                     [k |-> "Function", sid |-> 1019, name |-> "m", line |-> 5, params |-> <<>>,
                      body |-> <<
                                 [k |-> "Expression", sid |-> 1018,
                                  expr |-> [k |-> "Call", id |-> 1017, line |-> 5, arguments |-> <<>>,
                                            callee |-> [k |-> "Super", id |-> 1016, name |-> "super", method |-> "m", line |-> 5]]]>>]>>],
      [k |-> "Class", sid |-> 1030, name |-> "C", line |-> 6,
       superclass |-> [k |-> "Variable", id |-> 1021, name |-> "A", line |-> 6],
       methods |-> <<
                     [k |-> "Function", sid |-> 1029, name |-> "m", line |-> 6, params |-> <<>>,
                      body |-> <<
                                 [k |-> "Function", sid |-> 1025, name |-> "k", line |-> 6, params |-> <<>>,
                                  body |-> <<
                                             [k |-> "Expression", sid |-> 1024,
                                              expr |-> [k |-> "Call", id |-> 1023, line |-> 6, arguments |-> <<>>,
                                                        callee |-> [k |-> "Super", id |-> 1022, name |-> "super", method |-> "m", line |-> 6]]]>>],
                                 [k |-> "Class", sid |-> 1026, name |-> "D", line |-> 6, superclass |-> None, methods |-> <<>>],
                                 [k |-> "Return", sid |-> 1028, line |-> 6,
                                  value |-> [k |-> "This", id |-> 1027, name |-> "this", line |-> 6]]>>]>>],
      [k |-> "Function", sid |-> 1034, name |-> "s", line |-> 7, params |-> <<>>,
       body |-> <<
                  [k |-> "Expression", sid |-> 1033,
                   expr |-> [k |-> "Call", id |-> 1032, line |-> 7, arguments |-> <<>>,
                             callee |-> [k |-> "Super", id |-> 1031, name |-> "super", method |-> "m", line |-> 7]]]>>],
      [k |-> "Expression", sid |-> 1037,
       expr |-> [k |-> "Call", id |-> 1036, line |-> 8, arguments |-> <<>>,
                 callee |-> [k |-> "Super", id |-> 1035, name |-> "super", method |-> "m", line |-> 8]]]>>

\* this and super in methods and in functions nested in methods
\*   class A { m() { return this; } n() { fun g() { return this; } return g; } }
\*   class C < A { m() { fun k() { return super.m(); } class D { } return this; } }
\*   print "resolved";
ProgThisSuperOk ==
    <<
      [k |-> "Class", sid |-> 1047, name |-> "A", line |-> 1, superclass |-> None,
       methods |-> <<
                     [k |-> "Function", sid |-> 1040, name |-> "m", line |-> 1, params |-> <<>>,
                      body |-> <<
                                 [k |-> "Return", sid |-> 1039, line |-> 1,
                                  value |-> [k |-> "This", id |-> 1038, name |-> "this", line |-> 1]]>>],
                     [k |-> "Function", sid |-> 1046, name |-> "n", line |-> 1, params |-> <<>>,
                      body |-> <<
                                 [k |-> "Function", sid |-> 1043, name |-> "g", line |-> 1, params |-> <<>>,
                                  body |-> <<
                                             [k |-> "Return", sid |-> 1042, line |-> 1,
                                              value |-> [k |-> "This", id |-> 1041, name |-> "this", line |-> 1]]>>],
                                 [k |-> "Return", sid |-> 1045, line |-> 1,
                                  value |-> [k |-> "Variable", id |-> 1044, name |-> "g", line |-> 1]]>>]>>],
      [k |-> "Class", sid |-> 1057, name |-> "C", line |-> 2,
       superclass |-> [k |-> "Variable", id |-> 1048, name |-> "A", line |-> 2],
       methods |-> <<
                     [k |-> "Function", sid |-> 1056, name |-> "m", line |-> 2, params |-> <<>>,
                      body |-> <<
                                 [k |-> "Function", sid |-> 1052, name |-> "k", line |-> 2, params |-> <<>>,
                                  body |-> <<
                                             [k |-> "Return", sid |-> 1051, line |-> 2,
                                              value |-> [k |-> "Call", id |-> 1050, line |-> 2, arguments |-> <<>>,
                                                         callee |-> [k |-> "Super", id |-> 1049, name |-> "super", method |-> "m", line |-> 2]]]>>],
                                 [k |-> "Class", sid |-> 1053, name |-> "D", line |-> 2, superclass |-> None, methods |-> <<>>],
                                 [k |-> "Return", sid |-> 1055, line |-> 2,
                                  value |-> [k |-> "This", id |-> 1054, name |-> "this", line |-> 2]]>>]>>],
      [k |-> "Print", sid |-> 1059,
       expr |-> [k |-> "Literal", id |-> 1058, value |-> String("resolved")]]>>

\* names declared twice in one block or function scope, at global level, and in nested scopes
\*   var a = 1;
\*   var a = 2;
\*   fun f() { }
\*   fun f() { }
\*   class K { }
\*   class K { }
\*   { var b; var b; }
\*   { fun g() { } fun g() { } }
\*   { class L { } class L { } }
\*   fun p(x, x) { }
\*   fun q(y) { var y; }
\*   { var c; { var c; } }
\*   fun r(z) { { var z; } }
\*   { var d; fun d() { } }
ProgRedeclare ==
    <<
      [k |-> "Var", sid |-> 1061, name |-> "a", line |-> 1,
       initializer |-> [k |-> "Literal", id |-> 1060, value |-> Number(1)]],
      [k |-> "Var", sid |-> 1063, name |-> "a", line |-> 2,
       initializer |-> [k |-> "Literal", id |-> 1062, value |-> Number(2)]],
      [k |-> "Function", sid |-> 1064, name |-> "f", line |-> 3, params |-> <<>>, body |-> <<>>],
      [k |-> "Function", sid |-> 1065, name |-> "f", line |-> 4, params |-> <<>>, body |-> <<>>],
      [k |-> "Class", sid |-> 1066, name |-> "K", line |-> 5, superclass |-> None, methods |-> <<>>],
      [k |-> "Class", sid |-> 1067, name |-> "K", line |-> 6, superclass |-> None, methods |-> <<>>],
      [k |-> "Block", sid |-> 1070,
       statements |-> <<
                        [k |-> "Var", sid |-> 1068, name |-> "b", line |-> 7, initializer |-> None],
                        [k |-> "Var", sid |-> 1069, name |-> "b", line |-> 7, initializer |-> None]>>],
      [k |-> "Block", sid |-> 1073,
       statements |-> <<
                        [k |-> "Function", sid |-> 1071, name |-> "g", line |-> 8, params |-> <<>>, body |-> <<>>],
                        [k |-> "Function", sid |-> 1072, name |-> "g", line |-> 8, params |-> <<>>, body |-> <<>>]>>],
      [k |-> "Block", sid |-> 1076,
       statements |-> <<
                        [k |-> "Class", sid |-> 1074, name |-> "L", line |-> 9, superclass |-> None, methods |-> <<>>],
                        [k |-> "Class", sid |-> 1075, name |-> "L", line |-> 9, superclass |-> None, methods |-> <<>>]>>],
      [k |-> "Function", sid |-> 1077, name |-> "p", line |-> 10, params |-> <<"x", "x">>, body |-> <<>>],
      [k |-> "Function", sid |-> 1079, name |-> "q", line |-> 11, params |-> <<"y">>,
       body |-> <<
                  [k |-> "Var", sid |-> 1078, name |-> "y", line |-> 11, initializer |-> None]>>],
      [k |-> "Block", sid |-> 1083,
       statements |-> <<
                        [k |-> "Var", sid |-> 1080, name |-> "c", line |-> 12, initializer |-> None],
                        [k |-> "Block", sid |-> 1082,
                         statements |-> <<
                                          [k |-> "Var", sid |-> 1081, name |-> "c", line |-> 12, initializer |-> None]>>]>>],
      [k |-> "Function", sid |-> 1086, name |-> "r", line |-> 13, params |-> <<"z">>,
       body |-> <<
                  [k |-> "Block", sid |-> 1085,
                   statements |-> <<
                                    [k |-> "Var", sid |-> 1084, name |-> "z", line |-> 13, initializer |-> None]>>]>>],
      [k |-> "Block", sid |-> 1089,
       statements |-> <<
                        [k |-> "Var", sid |-> 1087, name |-> "d", line |-> 14, initializer |-> None],
                        [k |-> "Function", sid |-> 1088, name |-> "d", line |-> 14, params |-> <<>>, body |-> <<>>]>>]>>

\* names declared again at global level and shadowed in nested scopes
\*   var a = 1;
\*   var a = 2;
\*   fun f() { }
\*   fun f() { }
\*   class K { }
\*   class K { }
\*   { var c; { var c; } }
\*   fun r(z) { { var z; } }
\*   print a;
ProgRedeclareOk ==
    <<
      [k |-> "Var", sid |-> 1091, name |-> "a", line |-> 1,
       initializer |-> [k |-> "Literal", id |-> 1090, value |-> Number(1)]],
      [k |-> "Var", sid |-> 1093, name |-> "a", line |-> 2,
       initializer |-> [k |-> "Literal", id |-> 1092, value |-> Number(2)]],
      [k |-> "Function", sid |-> 1094, name |-> "f", line |-> 3, params |-> <<>>, body |-> <<>>],
      [k |-> "Function", sid |-> 1095, name |-> "f", line |-> 4, params |-> <<>>, body |-> <<>>],
      [k |-> "Class", sid |-> 1096, name |-> "K", line |-> 5, superclass |-> None, methods |-> <<>>],
      [k |-> "Class", sid |-> 1097, name |-> "K", line |-> 6, superclass |-> None, methods |-> <<>>],
      [k |-> "Block", sid |-> 1101,
       statements |-> <<
                        [k |-> "Var", sid |-> 1098, name |-> "c", line |-> 7, initializer |-> None],
                        [k |-> "Block", sid |-> 1100,
                         statements |-> <<
                                          [k |-> "Var", sid |-> 1099, name |-> "c", line |-> 7, initializer |-> None]>>]>>],
      [k |-> "Function", sid |-> 1104, name |-> "r", line |-> 8, params |-> <<"z">>,
       body |-> <<
                  [k |-> "Block", sid |-> 1103,
                   statements |-> <<
                                    [k |-> "Var", sid |-> 1102, name |-> "z", line |-> 8, initializer |-> None]>>]>>],
      [k |-> "Print", sid |-> 1106,
       expr |-> [k |-> "Variable", id |-> 1105, name |-> "a", line |-> 9]]>>

\* the values the programs' literals are drawn from
SampleValues == {Nil, Boolean(FALSE), Boolean(TRUE), Number(0), String("")}

LogicalRight == {Number(2), Nil}

\* what SystemTime::now() can give, in seconds
ClockReadings == {Number(1)}

\* the programs that a session continues with after its first
FollowUps == {"Probe", "Shadow", "Nested", "Property", "After"}

\* the programs of a session
Programs ==
    {[name |-> "Shadow", ast |-> ProgShadow],
     [name |-> "Depth", ast |-> ProgDepth],
     [name |-> "Counter", ast |-> ProgCounter],
     [name |-> "Inherit", ast |-> ProgInherit],
     [name |-> "Property", ast |-> ProgProperty],
     [name |-> "Super", ast |-> ProgSuper],
     [name |-> "SuperGrand", ast |-> ProgSuperGrand],
     [name |-> "SuperMissing", ast |-> ProgSuperMissing],
     [name |-> "ArityFunction", ast |-> ProgArityFunction],
     [name |-> "ArityClass", ast |-> ProgArityClass],
     [name |-> "ArityNoInit", ast |-> ProgArityNoInit],
     [name |-> "Clock", ast |-> ProgClock],
     [name |-> "TopReturn", ast |-> ProgTopReturn],
     [name |-> "Nested", ast |-> ProgNested],
     [name |-> "Probe", ast |-> ProgProbe],
     [name |-> "ErrorLoop", ast |-> ProgErrorLoop],
     [name |-> "ErrorClass", ast |-> ProgErrorClass],
     [name |-> "After", ast |-> ProgAfter],
     [name |-> "ThisSuper", ast |-> ProgThisSuper],
     [name |-> "ThisSuperOk", ast |-> ProgThisSuperOk],
     [name |-> "Redeclare", ast |-> ProgRedeclare],
     [name |-> "RedeclareOk", ast |-> ProgRedeclareOk],
     [name |-> "Bound", ast |-> ProgBound],
     [name |-> "Equals", ast |-> ProgEquals]}
    \cup {[name |-> "AssignDepth", ast |-> ProgAssignDepth(v)] : v \in {Number(5), Nil}}
    \cup {[name |-> "Return", ast |-> ProgReturn(n)] : n \in {Number(0), Number(2)}}
    \cup {[name |-> "Initializer", ast |-> ProgInitializer(x)] :
            x \in {Boolean(TRUE), Boolean(FALSE)}}
    \cup {[name |-> "Logical", ast |-> ProgLogical(a, b)] :
            a \in SampleValues, b \in LogicalRight}
    \cup {[name |-> "CallOrder", ast |-> ProgCallOrder(c)] : c \in {String("c"), String("")}}

(***************************************************************************)
(* Interpreter::interpret and the driver around it: a program is resolved  *)
(* by a new Resolver on the one Interpreter and interpreted if the         *)
(* resolver reported no error.                                             *)
(***************************************************************************)
\* {error} of Error::Runtime
ShowRuntimeError(r) == r.message \o "\n[line " \o ToString(r.line) \o "]"

\* interpret: the statements are executed in order; the first error is
\* printed and ends the run
Interpret(st, statements) ==
    Only({ CASE r.kind = "ok" -> r
             [] r.kind = "runtime" ->
                   [r EXCEPT !.st.stdout = Append(@, ShowRuntimeError(r))]
             [] r.kind = "return" ->
                   [r EXCEPT !.st.stdout = Append(@, "Returning " \o Show(r.st, r.v))]
             [] r.kind = "panic" -> r
           : r \in {ExecuteBlockInnerFrom(st, statements, 1, Len(statements))} })

\* the interpreter as a record, for evaluate and execute to thread
Interpreter(now) ==
    [envs |-> envs, insts |-> insts, environment |-> environment, locals |-> locals,
     written |-> written, stdout |-> <<>>, trace |-> <<>>,
     ctx |-> [frame |-> 0, cls |-> 0, super |-> NoMethod, this |-> 0],
     now |-> now, raised |-> NoRaise]

\* the interpreter as a run finds it
Before ==
    [outcome |-> lastRun.outcome, globals |-> envs[GlobalsRef].values,
     logLen |-> Len(written), environment |-> environment]

\* Interpreter::default: the globals hold clock
InitInterpreter ==
    /\ envs = <<[enclosing |-> NoEnv, values |-> ("clock" :> Clock), tag |-> GlobalTag,
                 act |-> GlobalsRef]>>
    /\ written = <<[act |-> GlobalsRef, name |-> "clock", v |-> Clock]>>
    /\ insts = <<>>
    /\ environment = GlobalsRef
    /\ locals = EmptyMap
    /\ scopeOf = EmptyMap
    /\ stdout = <<>>
    /\ trace = <<>>
    /\ lastRun = [program |-> "", outcome |-> "none", raised |-> NoRaise,
                  before |-> NoRun]
    /\ runs = <<>>

\* the VM is not used by the tree-walk interpreter
VmIdle ==
    /\ chunk = EmptyChunk
    /\ build = "debug"
    /\ ip = 0
    /\ stack = <<>>
    /\ vmResult = "none"
    /\ vmStdout = <<>>
    /\ vmStderr = <<>>
    /\ executed = <<>>

\* one run of the driver on program p = [name, ast]
Run(p, now) ==
    /\ Len(runs) < MaxRuns
    /\ lastRun.outcome # "panic"
    /\ \A i \in 1..Len(runs) : runs[i] # p.name
    /\ runs # <<>> => p.name \in FollowUps
    /\ \E rs \in {ResolveStatements(NewResolver(locals, scopeOf), p.ast)} :
           /\ locals' = rs.locals
           /\ scopeOf' = rs.scopeOf
           /\ runs' = Append(runs, p.name)
           /\ IF rs.had_error
              THEN /\ stdout' = rs.errors
                   /\ trace' = <<>>
                   /\ lastRun' = [program |-> p.name, outcome |-> "resolve",
                                  raised |-> NoRaise, before |-> Before]
                   /\ UNCHANGED <<envs, insts, environment, written>>
              ELSE \E r \in {Interpret([Interpreter(now) EXCEPT !.locals = rs.locals],
                                       p.ast)} :
                   /\ envs' = r.st.envs
                   /\ insts' = r.st.insts
                   /\ environment' = r.st.environment
                   /\ written' = r.st.written
                   /\ stdout' = r.st.stdout
                   /\ trace' = r.st.trace
                   /\ lastRun' = [program |-> p.name, outcome |-> r.kind,
                                  raised |-> r.st.raised, before |-> Before]
    /\ UNCHANGED <<vmVars, feVars>>

Init == VmIdle /\ FeIdle /\ InitInterpreter

Next == \E p \in Programs, now \in ClockReadings : Run(p, now)

Spec == Init /\ [][Next]_vars

(***************************************************************************)
(* The tree-walk Scanner (src/scanner.rs).  The source is a sequence of    *)
(* one-character strings; every character of the model is one byte long,  *)
(* so Scanner.current counts characters.  Scanner.chars is a MultiPeek:    *)
(* each peek() looks one character further than the peek() before it,      *)
(* until next() or reset_peek() puts the cursor back.                      *)
(***************************************************************************)
\* None of Option<char>
NoChar == ""

Digits == {"0", "1", "2", "3", "4", "5", "6", "7", "8", "9"}

Letters ==
    {"a", "b", "c", "d", "e", "f", "g", "h", "i", "j", "k", "l", "m", "n", "o", "p",
     "q", "r", "s", "t", "u", "v", "w", "x", "y", "z", "A", "B", "C", "D", "E", "F",
     "G", "H", "I", "J", "K", "L", "M", "N", "O", "P", "Q", "R", "S", "T", "U", "V",
     "W", "X", "Y", "Z"}

IsDigit(c) == c \in Digits

IsAlphabetic(c) == c \in Letters

\* the characters the sources are written in
SourceChars == {"a", "1", ".", "/", "=", ";", "\"", " ", "\n"}

\* the sources handed to the scanners
Sources == UNION {[1..n -> SourceChars] : n \in 0..MaxSource}

\* KEYWORDS.get(lexeme).unwrap_or(&TokenType::Identifier)
IdentifierType(lexeme) ==
    CASE lexeme = <<"a", "n", "d">> -> "And"
      [] lexeme = <<"c", "l", "a", "s", "s">> -> "Class"
      [] lexeme = <<"e", "l", "s", "e">> -> "Else"
      [] lexeme = <<"f", "a", "l", "s", "e">> -> "False"
      [] lexeme = <<"f", "o", "r">> -> "For"
      [] lexeme = <<"f", "u", "n">> -> "Fun"
      [] lexeme = <<"i", "f">> -> "If"
      [] lexeme = <<"n", "i", "l">> -> "Nil"
      [] lexeme = <<"o", "r">> -> "Or"
      [] lexeme = <<"p", "r", "i", "n", "t">> -> "Print"
      [] lexeme = <<"r", "e", "t", "u", "r", "n">> -> "Return"
      [] lexeme = <<"s", "u", "p", "e", "r">> -> "Super"
      [] lexeme = <<"t", "h", "i", "s">> -> "This"
      [] lexeme = <<"t", "r", "u", "e">> -> "True"
      [] lexeme = <<"v", "a", "r">> -> "Var"
      [] lexeme = <<"w", "h", "i", "l", "e">> -> "While"
      [] OTHER -> "Identifier"

\* Scanner::new
NewScanner ==
    [current |-> 0, index |-> 0, start |-> 0, line |-> 1, tokens |-> <<>>,
     errors |-> <<>>, done |-> FALSE, panicked |-> FALSE]

\* MultiPeek::peek: the character under the cursor, which then moves on; None
\* leaves the cursor where it is
MultiPeek(sc) ==
    IF sc.current + sc.index < Len(source)
    THEN [c |-> source[sc.current + sc.index + 1], sc |-> [sc EXCEPT !.index = @ + 1]]
    ELSE [c |-> NoChar, sc |-> sc]

\* MultiPeek::reset_peek
ResetPeek(sc) == [sc EXCEPT !.index = 0]

\* is_at_end: a peek
IsAtEnd(sc) == MultiPeek(sc)

\* advance: MultiPeek::next puts the cursor back
Advance(sc) ==
    IF sc.current >= Len(source)
    THEN [c |-> NoChar, sc |-> [sc EXCEPT !.panicked = TRUE]]
    ELSE [c |-> source[sc.current + 1],
          sc |-> [sc EXCEPT !.current = @ + 1, !.index = 0]]

\* is_match
IsMatch(sc, expected) ==
    LET p == MultiPeek(sc)
    IN  IF p.c = expected THEN [m |-> TRUE, sc |-> Advance(p.sc).sc]
        ELSE [m |-> FALSE, sc |-> p.sc]

\* add_token: the lexeme is source[start..current]; start notes where it began
AddToken(sc, typ, literal) ==
    [sc EXCEPT !.tokens = Append(@, [typ |-> typ,
                                     lexeme |-> SubSeq(source, sc.start + 1, sc.current),
                                     literal |-> literal, line |-> sc.line,
                                     start |-> sc.start])]

\* crate::error; start notes the token it was reported in
ScanError(sc, message) ==
    [sc EXCEPT !.errors = Append(@, [line |-> sc.line, message |-> message,
                                     start |-> sc.start])]

\* Option<Literal>
NoLiteral == [t |-> "None"]

RECURSIVE StringLoop(_)
\* the while loop of string: up to the next quote or the end of the source
StringLoop(sc) ==
    LET p == MultiPeek(sc)
    IN  IF p.c = NoChar \/ p.c = "\"" THEN p.sc
        ELSE StringLoop(Advance([p.sc EXCEPT !.line = IF p.c = "\n" THEN @ + 1
                                                      ELSE @]).sc)

\* string
ScanString(sc) ==
    LET e == IsAtEnd(StringLoop(sc))
    IN  IF e.c = NoChar THEN ScanError(e.sc, "Unterminated string.")
        ELSE LET s2 == Advance(e.sc).sc
             IN  AddToken(s2, "String",
                          [t |-> "String",
                           value |-> SubSeq(source, s2.start + 2, s2.current - 1)])

RECURSIVE DigitsLoop(_, _)
\* the while loops of number; the first resets the peek when it breaks
DigitsLoop(sc, reset) ==
    LET p == MultiPeek(sc)
    IN  IF p.c = NoChar THEN p.sc
        ELSE IF ~IsDigit(p.c) THEN IF reset THEN ResetPeek(p.sc) ELSE p.sc
        ELSE DigitsLoop(Advance(p.sc).sc, reset)

\* the value of a digit
DigitValue(c) == CHOOSE v \in 0..9 : ToString(v) = c

RECURSIVE ParseDigits(_, _, _)
\* str::parse::<f64> of digits and an optional fraction, as [n, d] with value n/d
ParseDigits(lexeme, i, acc) ==
    IF i > Len(lexeme) THEN acc
    ELSE IF lexeme[i] = "." THEN ParseDigits(lexeme, i + 1, [acc EXCEPT !.frac = TRUE])
    ELSE ParseDigits(lexeme, i + 1,
                     [acc EXCEPT !.n = 10 * @ + DigitValue(lexeme[i]),
                                 !.d = IF acc.frac THEN 10 * @ ELSE @])

ParseDouble(lexeme) ==
    LET r == ParseDigits(lexeme, 1, [n |-> 0, d |-> 1, frac |-> FALSE])
    IN  Frac(r.n, r.d)

\* number
ScanNumber(sc) ==
    LET d == MultiPeek(DigitsLoop(sc, TRUE))
        s2 == IF d.c = "."
              THEN LET n == MultiPeek(d.sc)
                   IN  IF n.c # NoChar /\ IsDigit(n.c)
                       THEN DigitsLoop(Advance(n.sc).sc, FALSE)
                       ELSE n.sc
              ELSE d.sc
    IN  AddToken(s2, "Number",
                 [t |-> "Number",
                  value |-> ParseDouble(SubSeq(source, s2.start + 1, s2.current))])

RECURSIVE IdentifierLoop(_)
IdentifierLoop(sc) ==
    LET p == MultiPeek(sc)
    IN  IF p.c # NoChar /\ (p.c = "_" \/ IsAlphabetic(p.c) \/ IsDigit(p.c))
        THEN IdentifierLoop(Advance(p.sc).sc)
        ELSE p.sc

\* identifier
ScanIdentifier(sc) ==
    LET s1 == IdentifierLoop(sc)
    IN  AddToken(s1, IdentifierType(SubSeq(source, s1.start + 1, s1.current)), NoLiteral)

RECURSIVE CommentLoop(_)
\* the while loop of the '/' arm: up to the next newline or the end of the source
CommentLoop(sc) ==
    LET p == MultiPeek(sc)
    IN  IF p.c = NoChar \/ p.c = "\n" THEN p.sc ELSE CommentLoop(Advance(p.sc).sc)

\* the TokenType of the single-character tokens
SingleCharTokens ==
    [c \in {"(", ")", "{", "}", ",", ".", "-", "+", ";", "*"} |->
        CASE c = "(" -> "LeftParen" [] c = ")" -> "RightParen"
          [] c = "{" -> "LeftBrace" [] c = "}" -> "RightBrace"
          [] c = "," -> "Comma" [] c = "." -> "Dot" [] c = "-" -> "Minus"
          [] c = "+" -> "Plus" [] c = ";" -> "Semicolon" [] c = "*" -> "Star"]

\* the TokenTypes of the one or two character tokens: [alone, with '=']
TwoCharTokens ==
    [c \in {"!", "=", "<", ">"} |->
        CASE c = "!" -> <<"Bang", "BangEqual">>
          [] c = "=" -> <<"Equal", "EqualEqual">>
          [] c = "<" -> <<"Less", "LessEqual">>
          [] c = ">" -> <<"Greater", "GreaterEqual">>]

\* scan_token
ScanToken(sc0) ==
    LET a == Advance(sc0)
        c == a.c
        sc == a.sc
    IN  IF sc.panicked THEN sc
        ELSE IF c \in DOMAIN SingleCharTokens THEN AddToken(sc, SingleCharTokens[c], NoLiteral)
        ELSE IF c \in DOMAIN TwoCharTokens
        THEN LET m == IsMatch(sc, "=")
             IN  AddToken(m.sc, TwoCharTokens[c][IF m.m THEN 2 ELSE 1], NoLiteral)
        ELSE IF c = "/"
        THEN LET m == IsMatch(sc, "/")
             IN  IF m.m THEN CommentLoop(m.sc) ELSE AddToken(m.sc, "Slash", NoLiteral)
        ELSE IF c \in {" ", "\r", "\t"} THEN sc
        ELSE IF c = "\n" THEN [sc EXCEPT !.line = @ + 1]
        ELSE IF c = "\"" THEN ScanString(sc)
        ELSE IF IsDigit(c) THEN ScanNumber(sc)
        ELSE IF c = "_" \/ IsAlphabetic(c) THEN ScanIdentifier(sc)
        ELSE ScanError(sc, "Unexpected character.")

\* one turn of the loop of scan: is_at_end, then start = current and scan_token
ScanStep ==
    /\ scanner # <<>>
    /\ ~scanner.done /\ ~scanner.panicked
    /\ LET e == IsAtEnd(scanner)
       IN  /\ e.c # NoChar
           /\ scanner' = ScanToken([e.sc EXCEPT !.start = e.sc.current])
    /\ UNCHANGED <<source, bscanner, vmVars, twVars, psVars, cmVars>>

\* the end of scan: is_at_end holds and the Eof token is pushed
ScanEof ==
    /\ scanner # <<>>
    /\ ~scanner.done /\ ~scanner.panicked
    /\ LET e == IsAtEnd(scanner)
       IN  /\ e.c = NoChar
           /\ scanner' = [e.sc EXCEPT !.done = TRUE,
                                      !.tokens = Append(@, [typ |-> "Eof", lexeme |-> <<>>,
                                                            literal |-> NoLiteral,
                                                            line |-> e.sc.line,
                                                            start |-> e.sc.current])]
    /\ UNCHANGED <<source, bscanner, vmVars, twVars, psVars, cmVars>>

(***************************************************************************)
(* The bytecode Scanner (bytecode/src/scanner.rs).  Scanner.source is a    *)
(* PeekNth: peek() is peek_nth(0), and peek_nth(n) is the character n      *)
(* places after the next one.                                              *)
(***************************************************************************)
\* Scanner::new; tokens are the tokens scan_token has returned so far
NewBcScanner ==
    [pos |-> 0, line |-> 1, start |-> 0, tokens |-> <<>>, done |-> FALSE,
     panicked |-> FALSE]

\* PeekNth::peek_nth
PeekNth(b, n) == IF b.pos + n < Len(source) THEN source[b.pos + n + 1] ELSE NoChar

\* PeekNth::peek
BcPeek(b) == PeekNth(b, 0)

\* is_at_end
BcIsAtEnd(b) == BcPeek(b) = NoChar

\* advance
BcAdvance(b) ==
    IF b.pos >= Len(source) THEN [b EXCEPT !.panicked = TRUE]
    ELSE [b EXCEPT !.pos = @ + 1]

RECURSIVE BcCommentLoop(_)
\* the while loop of the '/' arm of skip_whitespace
BcCommentLoop(b) ==
    IF BcPeek(b) = "\n" \/ BcIsAtEnd(b) THEN b ELSE BcCommentLoop(BcAdvance(b))

RECURSIVE SkipWhitespace(_)
\* skip_whitespace: the arms for blanks and newlines continue the loop, the
\* comment arm falls out of the match to the break that ends it
SkipWhitespace(b) ==
    LET c == BcPeek(b)
    IN  IF c \in {" ", "\r", "\t"} THEN SkipWhitespace(BcAdvance(b))
        ELSE IF c = "\n" THEN SkipWhitespace(BcAdvance([b EXCEPT !.line = @ + 1]))
        ELSE IF c = "/" /\ PeekNth(b, 2) = "/" THEN BcCommentLoop(b)
        ELSE b

\* next_is_match
NextIsMatch(b, expected) == BcPeek(b) = expected

\* what scan_token returns: Token::new / Token::error with the scanner's line;
\* start and end note the characters the call consumed for it
Returns(b, typ, lexeme) ==
    [b EXCEPT !.tokens = Append(@, [typ |-> typ, lexeme |-> lexeme, line |-> b.line,
                                    start |-> b.start, end |-> b.pos])]

\* scan_two_char_token
ScanTwoCharToken(b, lexeme, c, then, els) ==
    IF NextIsMatch(b, c) THEN Returns(BcAdvance(b), then, Append(lexeme, c))
    ELSE Returns(b, els, lexeme)

RECURSIVE BcStringLoop(_, _)
\* the while loop of scan_string: [b, lexeme]
BcStringLoop(b, lexeme) ==
    IF NextIsMatch(b, "\"") \/ BcIsAtEnd(b) THEN [b |-> b, lexeme |-> lexeme]
    ELSE LET c == BcPeek(b)
         IN  BcStringLoop(BcAdvance([b EXCEPT !.line = IF c = "\n" THEN @ + 1 ELSE @]),
                          Append(lexeme, c))

\* scan_string
BcScanString(b0) ==
    LET r == BcStringLoop(b0, <<>>)
    IN  IF BcIsAtEnd(r.b) THEN Returns(r.b, "Error", "Unterminated string.")
        ELSE Returns(BcAdvance(r.b), "String", r.lexeme)

RECURSIVE BcDigitsLoop(_, _)
\* the while loops of scan_number: [b, lexeme]
BcDigitsLoop(b, lexeme) ==
    IF IsDigit(BcPeek(b)) THEN BcDigitsLoop(BcAdvance(b), Append(lexeme, BcPeek(b)))
    ELSE [b |-> b, lexeme |-> lexeme]

\* scan_number
BcScanNumber(b0, lexeme0) ==
    LET i == BcDigitsLoop(b0, lexeme0)
        f == IF NextIsMatch(i.b, ".") /\ IsDigit(PeekNth(i.b, 2))
             THEN BcDigitsLoop(BcAdvance(i.b), Append(i.lexeme, "."))
             ELSE i
    IN  Returns(f.b, "Number", f.lexeme)

RECURSIVE BcIdentifierLoop(_, _)
BcIdentifierLoop(b, lexeme) ==
    LET c == BcPeek(b)
    IN  IF IsAlphabetic(c) \/ IsDigit(c) \/ c = "_"
        THEN BcIdentifierLoop(BcAdvance(b), Append(lexeme, c))
        ELSE [b |-> b, lexeme |-> lexeme]

\* scan_identifier; identifier_type names the same keywords as KEYWORDS
BcScanIdentifier(b0, lexeme0) ==
    LET r == BcIdentifierLoop(b0, lexeme0)
    IN  Returns(r.b, IdentifierType(r.lexeme), r.lexeme)

\* the single-character tokens of scan_token's match
BcSingleCharTokens ==
    [c \in DOMAIN SingleCharTokens \cup {"/"} |->
        IF c = "/" THEN "Slash" ELSE SingleCharTokens[c]]

\* scan_token
BcScanToken(b0) ==
    LET skipped == SkipWhitespace(b0)
        b1 == [skipped EXCEPT !.start = skipped.pos]
    IN  IF BcIsAtEnd(b1) THEN [Returns(b1, "Eof", <<>>) EXCEPT !.done = TRUE]
        ELSE
        LET c == BcPeek(b1)
            b == BcAdvance(b1)
        IN  IF IsAlphabetic(c) \/ c = "_" THEN BcScanIdentifier(b, <<c>>)
            ELSE IF IsDigit(c) THEN BcScanNumber(b, <<c>>)
            ELSE IF c \in DOMAIN BcSingleCharTokens
            THEN Returns(b, BcSingleCharTokens[c], <<c>>)
            ELSE IF c \in DOMAIN TwoCharTokens
            THEN ScanTwoCharToken(b, <<c>>, "=", TwoCharTokens[c][2], TwoCharTokens[c][1])
            ELSE IF c = "\"" THEN BcScanString(b)
            ELSE Returns(b, "Error", "Unexpected character.")

\* one call of scan_token by the compiler, which asks for tokens up to Eof;
\* the source goes to the bytecode scanner once the tree-walk one is through
BcScanStep ==
    /\ scanner # <<>> /\ scanner.done
    /\ ~bscanner.done
    /\ bscanner' = BcScanToken(bscanner)
    /\ UNCHANGED <<source, scanner, vmVars, twVars, psVars, cmVars>>

\* a source is handed to both scanners
InitScan ==
    /\ VmIdle
    /\ TwIdle
    /\ PsIdle
    /\ CmIdle
    /\ source \in Sources
    /\ scanner = NewScanner
    /\ bscanner = NewBcScanner

NextScan == ScanStep \/ ScanEof \/ BcScanStep

SpecScan == InitScan /\ [][NextScan]_vars

(***************************************************************************)
(* The parser of the tree-walk interpreter (src/src/parser.rs).  `tokens`  *)
(* is Parser::tokens; a parser state p holds Parser::current and           *)
(* Parser::errors, and as ghosts the list of reports made by               *)
(* Parser::error (lib.rs report prints them), the logs of the calls of     *)
(* Parser::declaration and of the `=` that Parser::assignment handled, and *)
(* the flags panicked / diverged.  Every function returning                *)
(* Result<_, Error> yields [ok, p, node]; Try is the `?` operator.         *)
(* Expr::id (a fresh Uuid) is not modelled.                                *)
(***************************************************************************)
NewParser ==
    [current |-> 0, errors |-> <<>>, reported |-> <<>>, decls |-> <<>>, assigns |-> <<>>,
     panicked |-> FALSE, diverged |-> FALSE]

ParseOk(p, node) == [ok |-> TRUE, p |-> p, node |-> node]

ParseErr(p) == [ok |-> FALSE, p |-> p, node |-> None]

Try(r, F(_)) == IF r.ok THEN F(r) ELSE r

\* tokens[current - 1], with Rust's 0-based index
ParserPrevious(p) == tokens[p.current]

ParserPeek(p) == tokens[p.current + 1]

ParserIsAtEnd(p) == ParserPeek(p).typ = "Eof"

\* advance() indexes tokens[current] in is_at_end and tokens[current - 1]
\* in previous(): either index out of range panics
ParserAdvance(p) ==
    IF p.current >= Len(tokens) THEN [p EXCEPT !.panicked = TRUE]
    ELSE IF ~ParserIsAtEnd(p) THEN [p EXCEPT !.current = @ + 1]
    ELSE IF p.current = 0 THEN [p EXCEPT !.panicked = TRUE]
    ELSE p

ParserCheck(p, typ) ==
    IF ParserIsAtEnd(p) THEN FALSE ELSE ParserPeek(p).typ = typ

ParserIsMatch(p, types) ==
    IF \E typ \in types : ParserCheck(p, typ)
    THEN [matched |-> TRUE, p |-> ParserAdvance(p)]
    ELSE [matched |-> FALSE, p |-> p]

ParserError(p, token, message) ==
    [p EXCEPT !.reported = Append(@,
        [line |-> token.line,
         where |-> IF token.typ = "Eof" THEN " at end" ELSE " at '" \o token.lexeme \o "'",
         message |-> message])]

Consume(p, typ, message) ==
    IF ParserCheck(p, typ) THEN ParseOk(ParserAdvance(p), ParserPeek(p))
    ELSE ParseErr(ParserError(p, ParserPeek(p), message))

SynchronizeKeywords ==
    {"Class", "For", "Fun", "If", "Print", "Return", "Var", "While"}

\* previous() indexes tokens[current - 1]: with current = 0 it panics
RECURSIVE SynchronizeLoop(_)
SynchronizeLoop(p) ==
    IF p.panicked \/ ParserIsAtEnd(p) THEN p
    ELSE IF p.current = 0 THEN [p EXCEPT !.panicked = TRUE]
    ELSE IF ParserPrevious(p).typ = "Semicolon" \/ ParserPeek(p).typ \in SynchronizeKeywords
    THEN p
    ELSE SynchronizeLoop(ParserAdvance(p))

SynchronizeNoAdvance(p) == SynchronizeLoop(p)

Synchronize(p) == SynchronizeLoop(ParserAdvance(p))

RECURSIVE Expression(_)
RECURSIVE Statement(_)
RECURSIVE Declaration(_)

Primary(p) ==
    IF ParserIsMatch(p, {"False"}).matched
    THEN ParseOk(ParserIsMatch(p, {"False"}).p, [k |-> "Literal", value |-> Boolean(FALSE)])
    ELSE IF ParserIsMatch(p, {"True"}).matched
    THEN ParseOk(ParserIsMatch(p, {"True"}).p, [k |-> "Literal", value |-> Boolean(TRUE)])
    ELSE IF ParserIsMatch(p, {"Nil"}).matched
    THEN ParseOk(ParserIsMatch(p, {"Nil"}).p, [k |-> "Literal", value |-> Nil])
    ELSE IF ParserIsMatch(p, {"Number", "String"}).matched
    THEN ParseOk(ParserIsMatch(p, {"Number", "String"}).p,
                 [k |-> "Literal", value |-> ParserPeek(p).literal])
    ELSE IF ParserIsMatch(p, {"Identifier"}).matched
    THEN ParseOk(ParserIsMatch(p, {"Identifier"}).p, [k |-> "Variable", name |-> ParserPeek(p)])
    ELSE IF ParserIsMatch(p, {"LeftParen"}).matched
    THEN Try(Expression(ParserIsMatch(p, {"LeftParen"}).p), LAMBDA e :
         Try(Consume(e.p, "RightParen", "Expect ')' after expression"), LAMBDA c :
         ParseOk(c.p, [k |-> "Grouping", expr |-> e.node])))
    ELSE ParseErr(ParserError(p, ParserPeek(p), "Expect expression."))

MaxArguments == 255

\* one turn of the loop of finish_call on l = [ok, p, node, done], node
\* being the arguments so far; done is the break, or the `?` on an error
ArgumentsTurn(l) ==
    Only({ IF ~e.ok THEN [ok |-> FALSE, p |-> e.p, node |-> None, done |-> TRUE]
           ELSE [ok |-> TRUE, p |-> ParserIsMatch(e.p, {"Comma"}).p,
                 node |-> Append(l.node, e.node),
                 done |-> ~ParserIsMatch(e.p, {"Comma"}).matched] :
           e \in {Expression(IF Len(l.node) >= MaxArguments
                             THEN ParserError(l.p, ParserPeek(l.p),
                                              "Can't have more than 255 arguments.")
                             ELSE l.p)} })

\* up to n turns of the loop, taken in two halves so that the evaluation
\* does not nest once per argument
RECURSIVE ArgumentsLoop(_, _)
ArgumentsLoop(l, n) ==
    IF l.done \/ n = 0 THEN l
    ELSE IF n = 1 THEN ArgumentsTurn(l)
    ELSE ArgumentsLoop(ArgumentsLoop(l, n \div 2), n - (n \div 2))

\* every turn takes a token, so Len(tokens) turns are the whole loop
FinishCall(p, callee) ==
    Try(IF ~ParserCheck(p, "RightParen")
        THEN ArgumentsLoop([ok |-> TRUE, p |-> p, node |-> <<>>, done |-> FALSE], Len(tokens))
        ELSE ParseOk(p, <<>>),
        LAMBDA a :
    Try(Consume(a.p, "RightParen", "Expect ')' after arguments."), LAMBDA paren :
    ParseOk(paren.p, [k |-> "Call", callee |-> callee, paren |-> paren.node,
                      arguments |-> a.node])))

RECURSIVE CallLoop(_, _)
CallLoop(p, expr) ==
    IF ParserIsMatch(p, {"LeftParen"}).matched
    THEN Try(FinishCall(ParserIsMatch(p, {"LeftParen"}).p, expr), LAMBDA c :
         CallLoop(c.p, c.node))
    ELSE IF ParserIsMatch(p, {"Dot"}).matched
    THEN Try(Consume(ParserIsMatch(p, {"Dot"}).p, "Identifier",
                     "Expect property name after '.'."), LAMBDA name :
         CallLoop(name.p, [k |-> "Get", object |-> expr, name |-> name.node]))
    ELSE ParseOk(p, expr)

Call(p) == Try(Primary(p), LAMBDA e : CallLoop(e.p, e.node))

RECURSIVE Unary(_)
Unary(p) ==
    IF ParserIsMatch(p, {"Bang", "Minus"}).matched
    THEN Try(Unary(ParserIsMatch(p, {"Bang", "Minus"}).p), LAMBDA right :
         ParseOk(right.p, [k |-> "Unary", operator |-> ParserPeek(p), right |-> right.node]))
    ELSE Call(p)

\* factor, term, comparison, equality, and, or have one shape: the operand
\* is the next tighter level, the loop folds to the left
LevelOperators(level) ==
    CASE level = 1 -> {"Slash", "Star"}
      [] level = 2 -> {"Minus", "Plus"}
      [] level = 3 -> {"Greater", "GreaterEqual", "Less", "LessEqual"}
      [] level = 4 -> {"BangEqual", "EqualEqual"}
      [] level = 5 -> {"And"}
      [] level = 6 -> {"Or"}

LevelKind(level) == IF level >= 5 THEN "Logical" ELSE "Binary"

RECURSIVE BinaryLevel(_, _)
RECURSIVE BinaryLoop(_, _, _)
BinaryLoop(p, expr, level) ==
    IF ParserIsMatch(p, LevelOperators(level)).matched
    THEN Try(BinaryLevel(ParserIsMatch(p, LevelOperators(level)).p, level - 1), LAMBDA right :
         BinaryLoop(right.p, [k |-> LevelKind(level), left |-> expr,
                              operator |-> ParserPeek(p), right |-> right.node], level))
    ELSE ParseOk(p, expr)

BinaryLevel(p, level) ==
    IF level = 0 THEN Unary(p)
    ELSE Try(BinaryLevel(p, level - 1), LAMBDA e : BinaryLoop(e.p, e.node, level))

Factor(p) == BinaryLevel(p, 1)

Term(p) == BinaryLevel(p, 2)

Comparison(p) == BinaryLevel(p, 3)

Equality(p) == BinaryLevel(p, 4)

And(p) == BinaryLevel(p, 5)

Or(p) == BinaryLevel(p, 6)

\* the ghost log of an `=`: the left side, the index of the `=` token, the
\* value, where the value ended and what assignment returned
LoggedAssign(r, expr, value) ==
    [r EXCEPT !.p.assigns = Append(@, [target |-> expr.node, equals |-> expr.p.current,
                                       value |-> value.node, end |-> value.p.current,
                                       ok |-> r.ok, node |-> r.node,
                                       reports |-> Len(r.p.reported)])]

RECURSIVE Assignment(_)
Assignment(p) ==
    Try(Or(p), LAMBDA expr :
    IF ParserIsMatch(expr.p, {"Equal"}).matched
    THEN Try(Assignment(ParserIsMatch(expr.p, {"Equal"}).p), LAMBDA value :
         LoggedAssign(
             IF expr.node.k = "Variable"
             THEN ParseOk(value.p, [k |-> "Assign", name |-> expr.node.name,
                                    value |-> value.node])
             ELSE ParseErr(ParserError(value.p, ParserPeek(expr.p),
                                       "Invalid assignment target.")),
             expr, value))
    ELSE expr)

Expression(p) == Assignment(p)

\* a declaration takes at least one token, so a block that has seen
\* Len(tokens) of them is in a loop that does not end: the model stops
\* there and flags it
RECURSIVE BlockLoop(_, _)
BlockLoop(p, statements) ==
    IF ~ParserCheck(p, "RightBrace") /\ ~ParserIsAtEnd(p)
    THEN IF Len(p.decls) >= Len(tokens) THEN ParseErr([p EXCEPT !.diverged = TRUE])
         ELSE Only({ BlockLoop(d.p, IF d.ok THEN Append(statements, d.node) ELSE statements) :
                     d \in {Declaration(p)} })
    ELSE ParseOk(p, statements)

Block(p) ==
    Try(BlockLoop(p, <<>>), LAMBDA statements :
    Try(Consume(statements.p, "RightBrace", "Expect '}' after block."), LAMBDA brace :
    ParseOk(brace.p, statements.node)))

ExpressionStatement(p) ==
    Try(Expression(p), LAMBDA expr :
    Try(Consume(expr.p, "Semicolon", "Expect ';' after expression."), LAMBDA semi :
    ParseOk(semi.p, [k |-> "Expression", expr |-> expr.node])))

VarDeclaration(p) ==
    Try(Consume(p, "Identifier", "Expect variable name."), LAMBDA name :
    Try(IF ParserIsMatch(name.p, {"Equal"}).matched
        THEN Expression(ParserIsMatch(name.p, {"Equal"}).p)
        ELSE ParseOk(name.p, None), LAMBDA initializer :
    Try(Consume(initializer.p, "Semicolon", "Expect ';' after variable declaration."),
        LAMBDA semi :
    ParseOk(semi.p, [k |-> "Var", name |-> name.node, initializer |-> initializer.node]))))

\* the desugaring of for: [initializer] while (condition) { body [increment] }
ForBody(initializer, condition, increment, body) ==
    LET inner == IF increment # None
                 THEN [k |-> "Block",
                       statements |-> <<body, [k |-> "Expression", expr |-> increment]>>]
                 ELSE body
        loop == [k |-> "While",
                 condition |-> IF condition = None
                               THEN [k |-> "Literal", value |-> Boolean(TRUE)]
                               ELSE condition,
                 body |-> inner]
    IN  IF initializer # None THEN [k |-> "Block", statements |-> <<initializer, loop>>]
        ELSE loop

ForStatement(p) ==
    Try(Consume(p, "LeftParen", "Expect '(' after 'for'."), LAMBDA paren :
    Try(IF ParserIsMatch(paren.p, {"Semicolon"}).matched
        THEN ParseOk(ParserIsMatch(paren.p, {"Semicolon"}).p, None)
        ELSE IF ParserIsMatch(paren.p, {"Var"}).matched
        THEN VarDeclaration(ParserIsMatch(paren.p, {"Var"}).p)
        ELSE ExpressionStatement(paren.p), LAMBDA initializer :
    Try(IF ~ParserCheck(initializer.p, "Semicolon") THEN Expression(initializer.p)
        ELSE ParseOk(initializer.p, None), LAMBDA condition :
    Try(Consume(condition.p, "Semicolon", "Expect ';' after loop condition."), LAMBDA semi :
    Try(IF ~ParserCheck(semi.p, "RightParen") THEN Expression(semi.p)
        ELSE ParseOk(semi.p, None), LAMBDA increment :
    Try(Consume(increment.p, "RightParen", "Expect ')' after for clauses."), LAMBDA close :
    Try(Statement(close.p), LAMBDA body :
    ParseOk(body.p, ForBody(initializer.node, condition.node, increment.node,
                            body.node)))))))))

IfStatement(p) ==
    Try(Consume(p, "LeftParen", "Expect '(' after 'if'."), LAMBDA paren :
    Try(Expression(paren.p), LAMBDA condition :
    Try(Consume(condition.p, "RightParen", "Expect ')' after if condition."), LAMBDA close :
    Try(Statement(close.p), LAMBDA then_branch :
    Try(IF ParserIsMatch(then_branch.p, {"Else"}).matched
        THEN Statement(ParserIsMatch(then_branch.p, {"Else"}).p)
        ELSE ParseOk(then_branch.p, None), LAMBDA else_branch :
    ParseOk(else_branch.p, [k |-> "If", condition |-> condition.node,
                            then_branch |-> then_branch.node,
                            else_branch |-> else_branch.node]))))))

PrintStatement(p) ==
    Try(Expression(p), LAMBDA value :
    Try(Consume(value.p, "Semicolon", "Expect ';' after value."), LAMBDA semi :
    ParseOk(semi.p, [k |-> "Print", expr |-> value.node])))

ReturnStatement(p) ==
    Try(IF ~ParserCheck(p, "Semicolon") THEN Expression(p)
        ELSE ParseOk(p, [k |-> "Literal", value |-> Nil]), LAMBDA value :
    Try(Consume(value.p, "Semicolon", "Expect ';' after return value."), LAMBDA semi :
    ParseOk(semi.p, [k |-> "Return", keyword |-> ParserPrevious(p), value |-> value.node])))

WhileStatement(p) ==
    Try(Consume(p, "LeftParen", "Expect '(' after 'while'."), LAMBDA paren :
    Try(Expression(paren.p), LAMBDA condition :
    Try(Consume(condition.p, "RightParen", "Expect ')' after condition."), LAMBDA close :
    Try(Statement(close.p), LAMBDA body :
    ParseOk(body.p, [k |-> "While", condition |-> condition.node, body |-> body.node])))))

Statement(p) ==
    IF ParserIsMatch(p, {"For"}).matched THEN ForStatement(ParserIsMatch(p, {"For"}).p)
    ELSE IF ParserIsMatch(p, {"If"}).matched THEN IfStatement(ParserIsMatch(p, {"If"}).p)
    ELSE IF ParserIsMatch(p, {"Print"}).matched
    THEN PrintStatement(ParserIsMatch(p, {"Print"}).p)
    ELSE IF ParserIsMatch(p, {"Return"}).matched
    THEN ReturnStatement(ParserIsMatch(p, {"Return"}).p)
    ELSE IF ParserIsMatch(p, {"While"}).matched
    THEN WhileStatement(ParserIsMatch(p, {"While"}).p)
    ELSE IF ParserIsMatch(p, {"LeftBrace"}).matched
    THEN Try(Block(ParserIsMatch(p, {"LeftBrace"}).p), LAMBDA statements :
         ParseOk(statements.p, [k |-> "Block", statements |-> statements.node]))
    ELSE ExpressionStatement(p)

MaxParameters == 255

\* one turn of the parameter loop of function on l = [ok, p, node, done]
ParametersTurn(l) ==
    Only({ IF ~name.ok THEN [ok |-> FALSE, p |-> name.p, node |-> None, done |-> TRUE]
           ELSE [ok |-> TRUE, p |-> ParserIsMatch(name.p, {"Comma"}).p,
                 node |-> Append(l.node, name.node),
                 done |-> ~ParserIsMatch(name.p, {"Comma"}).matched] :
           name \in {Consume(IF Len(l.node) >= MaxParameters
                             THEN ParserError(l.p, ParserPeek(l.p),
                                              "Can't have more than 255 parameters")
                             ELSE l.p, "Identifier", "Expect parameter name.")} })

RECURSIVE ParametersLoop(_, _)
ParametersLoop(l, n) ==
    IF l.done \/ n = 0 THEN l
    ELSE IF n = 1 THEN ParametersTurn(l)
    ELSE ParametersLoop(ParametersLoop(l, n \div 2), n - (n \div 2))

\* kind is FunKind's Display form, "function" or "method"
Function(p, kind) ==
    Try(Consume(p, "Identifier", "Expect " \o kind \o " name"), LAMBDA name :
    Try(Consume(name.p, "LeftParen", "Expect '(' after " \o kind \o " name."), LAMBDA paren :
    Try(IF ~ParserCheck(paren.p, "RightParen")
        THEN ParametersLoop([ok |-> TRUE, p |-> paren.p, node |-> <<>>, done |-> FALSE],
                            Len(tokens))
        ELSE ParseOk(paren.p, <<>>), LAMBDA params :
    Try(Consume(params.p, "RightParen", "Expect ')' after parameters."), LAMBDA close :
    Try(Consume(close.p, "LeftBrace", "Expect '{' before " \o kind \o " body."), LAMBDA brace :
    Try(Block(brace.p), LAMBDA body :
    ParseOk(body.p, [k |-> "Function", name |-> name.node, params |-> params.node,
                     body |-> body.node])))))))

RECURSIVE MethodsLoop(_, _)
MethodsLoop(p, methods) ==
    IF ~ParserCheck(p, "RightBrace") /\ ~ParserIsAtEnd(p)
    THEN Try(Function(p, "method"), LAMBDA method :
         MethodsLoop(method.p, Append(methods, method.node)))
    ELSE ParseOk(p, methods)

ClassDeclaration(p) ==
    Try(Consume(p, "Identifier", "Except class name."), LAMBDA name :
    Try(Consume(name.p, "LeftBrace", "Expect '{' before class body."), LAMBDA brace :
    Try(MethodsLoop(brace.p, <<>>), LAMBDA methods :
    Try(Consume(methods.p, "RightBrace", "Expect '}' after class body."), LAMBDA close :
    ParseOk(close.p, [k |-> "Class", name |-> name.node, methods |-> methods.node])))))

DeclarationKind(p) ==
    IF ParserIsMatch(p, {"Class"}).matched THEN ClassDeclaration(ParserIsMatch(p, {"Class"}).p)
    ELSE IF ParserIsMatch(p, {"Fun"}).matched
    THEN Function(ParserIsMatch(p, {"Fun"}).p, "function")
    ELSE IF ParserIsMatch(p, {"Var"}).matched
    THEN VarDeclaration(ParserIsMatch(p, {"Var"}).p)
    ELSE Statement(p)

\* Option<Stmt>: ok is Some.  The ghost log keeps where the call began and
\* where it left the parser.
LoggedDecl(p, start, failed) ==
    [p EXCEPT !.decls = Append(@, [start |-> start, end |-> p.current, failed |-> failed])]

Declaration(p) ==
    Only({ IF res.ok THEN ParseOk(LoggedDecl(res.p, p.current, FALSE), res.node)
           ELSE ParseErr(LoggedDecl(Synchronize([res.p EXCEPT !.errors = Append(@, "ParseError")]),
                                    p.current, TRUE)) :
           res \in {DeclarationKind(p)} })

(***************************************************************************)
(* Token lists for the parser: every list of at most MaxTokens tokens of   *)
(* a small alphabet, and longer lists that reach the assignment forms, the *)
(* argument and parameter limits and the recovery in nested blocks.  Each  *)
(* ends in one Eof token.                                                  *)
(***************************************************************************)
Tok(typ, lexeme) == [typ |-> typ, lexeme |-> lexeme, literal |-> NoLiteral, line |-> 1]

Ident(name) == Tok("Identifier", name)

Num(n) == [typ |-> "Number", lexeme |-> ToString(n), literal |-> Number(n), line |-> 1]

Eof == Tok("Eof", "")

ShortTokens ==
    {Ident("a"), Num(1), Tok("Equal", "="), Tok("Dot", "."), Tok("LeftParen", "("),
     Tok("RightParen", ")"), Tok("Semicolon", ";"), Tok("LeftBrace", "{"),
     Tok("RightBrace", "}"), Tok("Var", "var"), Tok("Print", "print"), Tok("Fun", "fun"),
     Tok("Class", "class"), Tok("Comma", ","), Tok("Minus", "-")}

\* n times the expression or name `a`, with commas between
CommaList(n) ==
    IF n = 0 THEN <<>>
    ELSE [i \in 1..(2 * n - 1) |-> IF i % 2 = 1 THEN Ident("a") ELSE Tok("Comma", ",")]

\* f(a, ..., a);
CallWith(n) ==
    <<Ident("f"), Tok("LeftParen", "(")>> \o CommaList(n)
        \o <<Tok("RightParen", ")"), Tok("Semicolon", ";")>>

\* fun f(a, ..., a) { }
FunWith(n) ==
    <<Tok("Fun", "fun"), Ident("f"), Tok("LeftParen", "(")>> \o CommaList(n)
        \o <<Tok("RightParen", ")"), Tok("LeftBrace", "{"), Tok("RightBrace", "}")>>

SampleTokens ==
    [ChainedAssign |-> <<Ident("a"), Tok("Equal", "="), Ident("b"), Tok("Equal", "="),
                         Ident("c"), Tok("Semicolon", ";")>>,
     SetProperty |-> <<Ident("a"), Tok("Dot", "."), Ident("b"), Tok("Equal", "="),
                       Ident("c"), Tok("Semicolon", ";")>>,
     SetChained |-> <<Ident("a"), Tok("Dot", "."), Ident("b"), Tok("Equal", "="),
                      Ident("c"), Tok("Dot", "."), Ident("d"), Tok("Equal", "="),
                      Ident("e"), Tok("Semicolon", ";")>>,
     SetOnCall |-> <<Ident("f"), Tok("LeftParen", "("), Tok("RightParen", ")"),
                     Tok("Dot", "."), Ident("b"), Tok("Equal", "="), Num(1),
                     Tok("Semicolon", ";")>>,
     AssignToSum |-> <<Ident("a"), Tok("Plus", "+"), Ident("b"), Tok("Equal", "="),
                       Ident("c"), Tok("Semicolon", ";")>>,
     AssignToGroup |-> <<Tok("LeftParen", "("), Ident("a"), Tok("RightParen", ")"),
                         Tok("Equal", "="), Num(1), Tok("Semicolon", ";"),
                         Tok("Print", "print"), Ident("a"), Tok("Semicolon", ";")>>,
     ArgsAtLimit |-> CallWith(MaxArguments),
     ArgsOverLimit |-> CallWith(MaxArguments + 1),
     ParamsAtLimit |-> FunWith(MaxParameters),
     ParamsOverLimit |-> FunWith(MaxParameters + 1),
     ErrorInBlock |-> <<Tok("LeftBrace", "{"), Tok("RightParen", ")"), Tok("Var", "var"),
                        Ident("a"), Tok("Semicolon", ";"), Tok("RightBrace", "}"),
                        Tok("Print", "print"), Ident("a"), Tok("Semicolon", ";")>>,
     ErrorInMethod |-> <<Tok("Class", "class"), Ident("A"), Tok("LeftBrace", "{"),
                         Ident("m"), Tok("LeftParen", "("), Tok("RightParen", ")"),
                         Tok("LeftBrace", "{"), Tok("Return", "return"), Tok("Plus", "+"),
                         Tok("Semicolon", ";"), Tok("RightBrace", "}"),
                         Tok("RightBrace", "}")>>,
     Loops |-> <<Tok("For", "for"), Tok("LeftParen", "("), Tok("Var", "var"), Ident("i"),
                 Tok("Equal", "="), Num(0), Tok("Semicolon", ";"), Ident("i"),
                 Tok("Less", "<"), Num(2), Tok("Semicolon", ";"), Ident("i"),
                 Tok("Equal", "="), Ident("i"), Tok("Plus", "+"), Num(1),
                 Tok("RightParen", ")"), Tok("If", "if"), Tok("LeftParen", "("),
                 Tok("Bang", "!"), Ident("i"), Tok("Or", "or"), Tok("True", "true"),
                 Tok("RightParen", ")"), Tok("Print", "print"), Ident("i"),
                 Tok("Semicolon", ";"), Tok("Else", "else"), Tok("While", "while"),
                 Tok("LeftParen", "("), Tok("Nil", "nil"), Tok("RightParen", ")"),
                 Tok("LeftBrace", "{"), Tok("RightBrace", "}")>>]

MaxTokens == 3

\* every list of at most MaxTokens tokens of ShortTokens, ended by Eof
ShortLists == {list \o <<Eof>> : list \in UNION {[1..n -> ShortTokens] : n \in 0..MaxTokens}}

TokenLists ==
    ShortLists \cup {SampleTokens[name] \o <<Eof>> : name \in DOMAIN SampleTokens}

\* the loop of parse while a token is left: one declaration
ParseDeclaration ==
    /\ parser # <<>>
    /\ parser.state = "parsing"
    /\ ~ParserIsAtEnd(parser.p)
    /\ Len(parser.p.decls) < Len(tokens)
    /\ \E d \in {Declaration(parser.p)} :
          parser' = [parser EXCEPT !.p = d.p,
                                   !.statements = IF d.ok THEN Append(@, d.node) ELSE @]
    /\ UNCHANGED <<tokens, scVars, vmVars, twVars, cmVars>>

\* the end of parse: Ok(statements) if no error was kept, else the first one
ParseReturn ==
    /\ parser # <<>>
    /\ parser.state = "parsing"
    /\ ParserIsAtEnd(parser.p)
    /\ parser' = [parser EXCEPT !.state = "returned",
                                !.result = IF parser.p.errors = <<>>
                                           THEN [ok |-> TRUE, statements |-> parser.statements]
                                           ELSE [ok |-> FALSE, error |-> parser.p.errors[1]]]
    /\ UNCHANGED <<tokens, scVars, vmVars, twVars, cmVars>>

\* Parser::new on a token list
InitParse ==
    /\ VmIdle
    /\ TwIdle
    /\ ScIdle
    /\ CmIdle
    /\ tokens \in TokenLists
    /\ parser = [state |-> "parsing", p |-> NewParser, statements |-> <<>>,
                 result |-> [ok |-> FALSE, error |-> "none"]]

NextParse == ParseDeclaration \/ ParseReturn

SpecParse == InitParse /\ [][NextParse]_vars

(***************************************************************************)
(* The compiler of the bytecode VM (bytecode/src/compiler.rs): a Pratt     *)
(* parser that reads its tokens from the bytecode Scanner and writes into  *)
(* a Chunk.  A compiler state c holds the Parser's fields, the chunk that  *)
(* compile was given, and as ghosts the reports of error_at, the number    *)
(* literals that Parser::number compiled and the bytes and lines that      *)
(* emit_byte passed to Chunk::write.                                       *)
(***************************************************************************)
\* Precedence, a repr(u8) enum
PrecNone == 0

PrecAssignment == 1

PrecTerm == 6

PrecFactor == 7

PrecUnary == 8

PrecPrimary == 10

NoToken == [typ |-> "None"]

\* Parser::new
NewCompiler ==
    [scanner |-> NewBcScanner, previous |-> NoToken, current |-> NoToken,
     had_error |-> FALSE, panic_mode |-> FALSE, chunk |-> EmptyChunk,
     errors |-> <<>>, literals |-> <<>>, emitted |-> <<>>, panicked |-> FALSE]

\* error_at
ErrorAt(c, token, message) ==
    IF c.panic_mode THEN c
    ELSE [c EXCEPT !.panic_mode = TRUE, !.had_error = TRUE,
                   !.errors = Append(@, [line |-> token.line, typ |-> token.typ,
                                         message |-> message])]

\* the loop of advance: scan_token until the token is not an Error
RECURSIVE AdvanceLoop(_)
AdvanceLoop(c) ==
    Only({ IF b.tokens[Len(b.tokens)].typ # "Error"
           THEN [c EXCEPT !.scanner = b, !.current = b.tokens[Len(b.tokens)]]
           ELSE AdvanceLoop(ErrorAt([c EXCEPT !.scanner = b,
                                              !.current = b.tokens[Len(b.tokens)]],
                                    b.tokens[Len(b.tokens)],
                                    b.tokens[Len(b.tokens)].lexeme)) :
           b \in {BcScanToken(c.scanner)} })

CompilerAdvance(c) == AdvanceLoop([c EXCEPT !.previous = c.current])

CompilerConsume(c, typ, message) ==
    IF c.current.typ = typ THEN CompilerAdvance(c) ELSE ErrorAt(c, c.current, message)

\* emit_byte: previous() panics when there is no previous token
EmitByte(c, byte) ==
    IF c.previous = NoToken THEN [c EXCEPT !.panicked = TRUE]
    ELSE [c EXCEPT !.chunk = ChunkWrite(@, byte, c.previous.line),
                   !.emitted = Append(@, [byte |-> byte, line |-> c.previous.line])]

EmitBytes(c, byte1, byte2) == EmitByte(EmitByte(c, byte1), byte2)

EndCompilation(c) == EmitByte(c, OpReturn)

\* get_rule: the prefix rule, the infix rule and the precedence of a token type
GetRule(typ) ==
    CASE typ = "LeftParen" -> [prefix |-> "grouping", infix |-> "none", precedence |-> PrecNone]
      [] typ = "Minus" -> [prefix |-> "unary", infix |-> "binary", precedence |-> PrecTerm]
      [] typ = "Plus" -> [prefix |-> "none", infix |-> "binary", precedence |-> PrecTerm]
      [] typ \in {"Slash", "Star"} ->
             [prefix |-> "none", infix |-> "binary", precedence |-> PrecFactor]
      [] typ = "Number" -> [prefix |-> "number", infix |-> "none", precedence |-> PrecNone]
      [] typ \in {"False", "Nil", "True"} ->
             [prefix |-> "literal", infix |-> "none", precedence |-> PrecNone]
      [] OTHER -> [prefix |-> "none", infix |-> "none", precedence |-> PrecNone]

RECURSIVE ParsePrecedence(_, _)

\* Precedence + 1: try_from fails past Primary
CompileBinary(c) ==
    IF GetRule(c.previous.typ).precedence + 1 > PrecPrimary THEN [c EXCEPT !.panicked = TRUE]
    ELSE Only({ CASE c.previous.typ = "Plus" -> EmitByte(r, OpAdd)
                  [] c.previous.typ = "Minus" -> EmitByte(r, OpSubtract)
                  [] c.previous.typ = "Star" -> EmitByte(r, OpMultiply)
                  [] c.previous.typ = "Slash" -> EmitByte(r, OpDivide)
                  [] OTHER -> r :
                r \in {ParsePrecedence(c, GetRule(c.previous.typ).precedence + 1)} })

CompileLiteral(c) ==
    CASE c.previous.typ = "False" -> EmitByte(c, OpFalse)
      [] c.previous.typ = "Nil" -> EmitByte(c, OpNil)
      [] c.previous.typ = "True" -> EmitByte(c, OpTrue)
      [] OTHER -> c

\* number; the ghost log keeps the literal's value, the place add_constant
\* stored it at and the offset of its Constant instruction
CompileNumber(c) ==
    Only({ EmitBytes([c EXCEPT !.chunk = a.chunk,
                               !.literals = Append(@, [value |-> ParseDouble(c.previous.lexeme),
                                                       stored |-> Len(c.chunk.constants),
                                                       offset |-> Len(c.chunk.code)])],
                     OpConstant, a.index) :
           a \in {ChunkAddConstant(c.chunk, ParseDouble(c.previous.lexeme))} })

CompileUnary(c) ==
    Only({ IF c.previous.typ = "Minus" THEN EmitByte(r, OpNegate) ELSE r :
           r \in {ParsePrecedence(c, PrecUnary)} })

CompileExpr(c) == ParsePrecedence(c, PrecAssignment)

CompileGrouping(c) ==
    CompilerConsume(CompileExpr(c), "RightParen", "Expect ')' after expression.")

ApplyRule(rule, c) ==
    CASE rule = "grouping" -> CompileGrouping(c)
      [] rule = "unary" -> CompileUnary(c)
      [] rule = "binary" -> CompileBinary(c)
      [] rule = "number" -> CompileNumber(c)
      [] rule = "literal" -> CompileLiteral(c)

\* one turn of the while loop of parse_precedence on l = [c, done]
InfixTurn(l, precedence) ==
    IF precedence <= GetRule(l.c.current.typ).precedence
    THEN Only({ [c |-> IF GetRule(a.previous.typ).infix # "none"
                       THEN ApplyRule(GetRule(a.previous.typ).infix, a)
                       ELSE a,
                 done |-> FALSE] :
                a \in {CompilerAdvance(l.c)} })
    ELSE [l EXCEPT !.done = TRUE]

\* up to n turns of the loop, taken in two halves so that the evaluation
\* does not nest once per operator; a turn takes a token, so Len(source) + 1
\* turns are the whole loop
RECURSIVE InfixLoop(_, _, _)
InfixLoop(l, precedence, n) ==
    IF l.done \/ n = 0 THEN l
    ELSE IF n = 1 THEN InfixTurn(l, precedence)
    ELSE InfixLoop(InfixLoop(l, precedence, n \div 2), precedence, n - (n \div 2))

ParsePrecedence(c0, precedence) ==
    Only({ IF GetRule(c.previous.typ).prefix = "none"
           THEN ErrorAt(c, c.previous, "Expect expression.")
           ELSE InfixLoop([c |-> ApplyRule(GetRule(c.previous.typ).prefix, c),
                           done |-> FALSE], precedence, Len(source) + 1).c :
           c \in {CompilerAdvance(c0)} })

(***************************************************************************)
(* The sources compile is checked on: every text of at most MaxExpr        *)
(* characters over digits, the four operators and parentheses, and sums of *)
(* as many literals as the constant pool has one-byte indices, and of one  *)
(* more, and a sum written over three lines.                               *)
(***************************************************************************)
ExprChars == {"1", "2", "+", "-", "*", "/", "(", ")"}

MaxExpr == 5

\* 3+1+1+...+1 with n literals
SumOf(n) ==
    [i \in 1..(2 * n - 1) |-> IF i = 1 THEN "3" ELSE IF i % 2 = 0 THEN "+" ELSE "1"]

PoolSize == 256

\* a sum written over three lines
ThreeLines == <<"1", "\n", "+", "\n", "2">>

CompileSources ==
    UNION {[1..n -> ExprChars] : n \in 0..MaxExpr}
        \cup {SumOf(PoolSize), SumOf(PoolSize + 1), ThreeLines}

\* compile up to the expression: Parser::new, advance, expression
CompileExpression ==
    /\ compiler # <<>>
    /\ compiler.state = "new"
    /\ compiler' = [compiler EXCEPT !.state = "parsed",
                                    !.c = CompileExpr(CompilerAdvance(compiler.c))]
    /\ UNCHANGED <<scVars, psVars, vmVars, twVars, repl, calls>>

\* the end of compile: consume(Eof), end_compilation, !had_error
CompileReturn ==
    /\ compiler # <<>>
    /\ compiler.state = "parsed"
    /\ \E c \in {EndCompilation(CompilerConsume(compiler.c, "Eof",
                                                "Expect end of expression."))} :
          compiler' = [compiler EXCEPT !.state = "returned", !.c = c,
                                       !.result = ~c.had_error]
    /\ UNCHANGED <<scVars, psVars, vmVars, twVars, repl, calls>>

\* compile(source, chunk) on a new chunk, as Vm::interpret calls it
InitCompile ==
    /\ VmIdle
    /\ TwIdle
    /\ PsIdle
    /\ source \in CompileSources
    /\ scanner = <<>>
    /\ bscanner = <<>>
    /\ compiler = [state |-> "new", c |-> NewCompiler, result |-> FALSE]
    /\ repl = <<>>
    /\ calls = <<>>

NextCompile == CompileExpression \/ CompileReturn

SpecCompile == InitCompile /\ [][NextCompile]_vars

(***************************************************************************)
(* Vm::interpret and the REPL around it (bytecode/src/vm.rs,               *)
(* bytecode/src/main.rs): every line read is compiled into a new chunk and *)
(* run on the one Vm.  executed, vmStdout and vmStderr hold what the       *)
(* current call has executed and printed.  The first line of a session is  *)
(* any of FirstLines, a later one any of ReplLines.  The                   *)
(* specification also holds the runs of Vm::run on the chunks of InitVm,   *)
(* which no line follows.                                                  *)
(***************************************************************************)
MaxLines == 3      \* lines read by one REPL
MaxLineLen == 4    \* characters in the first line of a session

\* lines as read_line returns them: some compile and run, some compile and
\* fail at run time, some do not compile
ReplLines ==
    {line \o <<"\n">> :
        line \in {<<"1", "+", "2">>, <<"n", "i", "l">>, <<"-", "n", "i", "l">>,
                  <<"1", "+", "n", "i", "l">>, <<"1", "+">>, <<>>,
                  <<"!", "t", "r", "u", "e">>, <<"1", "<", "2">>,
                  <<"1", "=", "=", "1">>, <<"@">>}}

\* the sources interpret is first called on: every text of at most
\* MaxLineLen characters of ExprChars, the two long sums, and the REPL lines
FirstLines ==
    UNION {[1..n -> ExprChars] : n \in 0..MaxLineLen}
        \cup {SumOf(PoolSize), SumOf(PoolSize + 1)} \cup ReplLines

\* repl reads a line; Vm::interpret begins: let mut chunk = Chunk::new()
ReadLine ==
    /\ vmResult \in {"new", "ok", "runtime", "compile"}
    /\ vmResult = "new" \/ compiler # <<>>
    /\ Len(repl) + (IF vmResult = "new" THEN 0 ELSE 1) < MaxLines
    /\ \E line \in (IF vmResult = "new" THEN FirstLines ELSE ReplLines) :
          source' = line
    /\ compiler' = [state |-> "new", c |-> NewCompiler, result |-> FALSE]
    /\ repl' = IF vmResult = "new" THEN repl ELSE Append(repl, vmResult)
    /\ chunk' = EmptyChunk
    /\ vmResult' = "compiling"
    /\ executed' = <<>>
    /\ vmStdout' = <<>>
    /\ vmStderr' = <<>>
    /\ UNCHANGED <<ip, stack, build, scanner, bscanner, psVars, twVars, calls>>

\* mutant: interpret leaves ip where the last run ended
VmInterpretKeepIp ==
    /\ vmResult = "compiling"
    /\ compiler.state = "returned"
    /\ UNCHANGED <<stack, build, vmStdout, vmStderr, executed, twVars, feVars>>
    /\ IF compiler.c.panicked
       THEN vmResult' = "panic" /\ UNCHANGED <<ip, chunk>>
       ELSE IF ~compiler.result
       THEN vmResult' = "compile" /\ UNCHANGED <<ip, chunk>>
       ELSE /\ ip' = ip
            /\ chunk' = compiler.c.chunk
            /\ vmResult' = "none"

\* mutant: the chunk is run whatever compile returned
VmInterpretAlways ==
    /\ vmResult = "compiling"
    /\ compiler.state = "returned"
    /\ UNCHANGED <<stack, build, vmStdout, vmStderr, executed, twVars, feVars>>
    /\ IF compiler.c.panicked
       THEN vmResult' = "panic" /\ UNCHANGED <<ip, chunk>>
       ELSE /\ ip' = 0
            /\ chunk' = compiler.c.chunk
            /\ vmResult' = "none"

\* if !compile(source, &mut chunk) { return Err(Error::Compile); }
\* self.ip = 0; self.run(chunk)
VmInterpret ==
    /\ vmResult = "compiling"
    /\ compiler.state = "returned"
    /\ UNCHANGED <<stack, build, vmStdout, vmStderr, executed, twVars, feVars>>
    /\ IF compiler.c.panicked
       THEN vmResult' = "panic" /\ UNCHANGED <<ip, chunk>>
       ELSE IF ~compiler.result
       THEN vmResult' = "compile" /\ UNCHANGED <<ip, chunk>>
       ELSE /\ ip' = 0
            /\ chunk' = compiler.c.chunk
            /\ vmResult' = "none"

\* Vm::new, before the REPL has read a line
InitRepl ==
    /\ chunk = EmptyChunk
    /\ build \in {"debug", "release"}
    /\ ip = 0
    /\ stack = <<>>
    /\ vmResult = "new"
    /\ vmStdout = <<>>
    /\ vmStderr = <<>>
    /\ executed = <<>>
    /\ TwIdle
    /\ FeIdle

NextInterpret ==
    \/ ReadLine
    \/ CompileExpression
    \/ CompileReturn
    \/ VmInterpret
    \/ NextVm

InitInterpret == InitVm \/ InitRepl

SpecInterpret == InitInterpret /\ [][NextInterpret]_vars

(***************************************************************************)
(* A chunk filled by hand with Chunk::write and Chunk::add_constant        *)
(* (bytecode/src/chunk.rs), next to the chunks that compile fills.         *)
(***************************************************************************)
MaxCalls == 4      \* calls of write and add_constant on one chunk

\* the bytes, lines and constants of the calls
BytesWritten == {OpConstant, OpReturn, 255}

LinesWritten == {1, 2, 123}

ConstantsAdded == {Number(2), Nil}

\* chunk.write(byte, line)
Write(byte, line) ==
    /\ compiler = <<>>
    /\ Len(calls) < MaxCalls
    /\ chunk' = ChunkWrite(chunk, byte, line)
    /\ calls' = Append(calls, [op |-> "write", byte |-> byte, line |-> line])
    /\ UNCHANGED <<ip, stack, vmResult, vmStdout, vmStderr, executed, build,
                   twVars, scVars, psVars, compiler, repl>>

\* chunk.add_constant(constant)
AddConstant(constant) ==
    /\ compiler = <<>>
    /\ Len(calls) < MaxCalls
    /\ chunk' = ChunkAddConstant(chunk, constant).chunk
    /\ calls' = Append(calls, [op |-> "add_constant", constant |-> constant,
                              index |-> ChunkAddConstant(chunk, constant).index])
    /\ UNCHANGED <<ip, stack, vmResult, vmStdout, vmStderr, executed, build,
                   twVars, scVars, psVars, compiler, repl>>

\* Chunk::new
InitChunk == VmIdle /\ TwIdle /\ FeIdle

NextChunk ==
    \/ \E byte \in BytesWritten, line \in LinesWritten : Write(byte, line)
    \/ \E constant \in ConstantsAdded : AddConstant(constant)
    \/ NextCompile

SpecChunk == (InitChunk \/ InitCompile) /\ [][NextChunk]_vars

(***************************************************************************)
(* The resolver on what the parser built (src/parser.rs,                   *)
(* treewalk/src/resolver.rs).  The parser's statements are handed to a new *)
(* Resolver when parse returned Ok.  AstStmt and AstExpr give the parser's *)
(* nodes the shape resolve_stmt and resolve_expr read: names and operators *)
(* by lexeme and type, and for Return the value that return_statement put  *)
(* in.  Expr::id and the ghost sid are not kept (0): no report of the      *)
(* resolver depends on them.  A class has no superclass, as                *)
(* class_declaration parses none.  The token lists are those of ShortLists *)
(* and the programs of ReturnTokens.                                       *)
(***************************************************************************)
RECURSIVE AstExpr(_)
AstExpr(e) ==
    CASE e.k = "None" -> None
      [] e.k = "Literal" -> [k |-> "Literal", id |-> 0, value |-> e.value]
      [] e.k = "Variable" ->
            [k |-> "Variable", id |-> 0, name |-> e.name.lexeme, line |-> e.name.line]
      [] e.k = "Grouping" -> [k |-> "Grouping", id |-> 0, expr |-> AstExpr(e.expr)]
      [] e.k = "Call" ->
            [k |-> "Call", id |-> 0, callee |-> AstExpr(e.callee), line |-> e.paren.line,
             arguments |-> [i \in DOMAIN e.arguments |-> AstExpr(e.arguments[i])]]
      [] e.k = "Get" ->
            [k |-> "Get", id |-> 0, object |-> AstExpr(e.object),
             name |-> e.name.lexeme, line |-> e.name.line]
      [] e.k = "Unary" ->
            [k |-> "Unary", id |-> 0, operator |-> e.operator.typ,
             line |-> e.operator.line, right |-> AstExpr(e.right)]
      [] e.k \in {"Binary", "Logical"} ->
            [k |-> e.k, id |-> 0, left |-> AstExpr(e.left), operator |-> e.operator.typ,
             line |-> e.operator.line, right |-> AstExpr(e.right)]
      [] e.k = "Assign" ->
            [k |-> "Assign", id |-> 0, name |-> e.name.lexeme, line |-> e.name.line,
             value |-> AstExpr(e.value)]

RECURSIVE AstStmt(_)
AstStmt(s) ==
    CASE s.k = "None" -> None
      [] s.k \in {"Expression", "Print"} -> [k |-> s.k, sid |-> 0, expr |-> AstExpr(s.expr)]
      [] s.k = "Var" ->
            [k |-> "Var", sid |-> 0, name |-> s.name.lexeme, line |-> s.name.line,
             initializer |-> AstExpr(s.initializer)]
      [] s.k = "Block" ->
            [k |-> "Block", sid |-> 0,
             statements |-> [i \in DOMAIN s.statements |-> AstStmt(s.statements[i])]]
      [] s.k = "If" ->
            [k |-> "If", sid |-> 0, condition |-> AstExpr(s.condition),
             then_branch |-> AstStmt(s.then_branch), else_branch |-> AstStmt(s.else_branch)]
      [] s.k = "While" ->
            [k |-> "While", sid |-> 0, condition |-> AstExpr(s.condition),
             body |-> AstStmt(s.body)]
      [] s.k = "Return" ->
            [k |-> "Return", sid |-> 0, line |-> s.keyword.line, value |-> AstExpr(s.value)]
      [] s.k = "Function" ->
            [k |-> "Function", sid |-> 0, name |-> s.name.lexeme, line |-> s.name.line,
             params |-> [i \in DOMAIN s.params |-> s.params[i].lexeme],
             body |-> [i \in DOMAIN s.body |-> AstStmt(s.body[i])]]
      [] s.k = "Class" ->
            [k |-> "Class", sid |-> 0, name |-> s.name.lexeme, line |-> s.name.line,
             superclass |-> None,
             methods |-> [i \in DOMAIN s.methods |-> AstStmt(s.methods[i])]]

\* class A { init() { <body> } }
InInit(body) ==
    <<Tok("Class", "class"), Ident("A"), Tok("LeftBrace", "{"), Ident("init"),
      Tok("LeftParen", "("), Tok("RightParen", ")"), Tok("LeftBrace", "{")>>
        \o body \o <<Tok("RightBrace", "}"), Tok("RightBrace", "}"), Eof>>

\* fun f() { <body> }
InFun(body) ==
    <<Tok("Fun", "fun"), Ident("f"), Tok("LeftParen", "("), Tok("RightParen", ")"),
      Tok("LeftBrace", "{")>> \o body \o <<Tok("RightBrace", "}")>>

ReturnValue == <<Tok("Return", "return"), Num(1), Tok("Semicolon", ";")>>

ReturnBare == <<Tok("Return", "return"), Tok("Semicolon", ";")>>

\* programs with a return statement
ReturnTokens ==
    [Top |-> ReturnValue \o <<Eof>>,
     TopBare |-> ReturnBare \o <<Eof>>,
     TopInBlock |-> <<Tok("LeftBrace", "{")>> \o ReturnValue
                        \o <<Tok("RightBrace", "}"), Eof>>,
     InFunction |-> InFun(ReturnValue) \o <<Eof>>,
     InFunctionBare |-> InFun(ReturnBare) \o <<Eof>>,
     InitValue |-> InInit(ReturnValue),
     InitBare |-> InInit(ReturnBare),
     InitNested |-> InInit(InFun(ReturnValue))]

\* the driver after parse: a new Resolver resolves the statements
ResolveParsed ==
    /\ parser # <<>>
    /\ parser.state = "returned"
    /\ parser.result.ok
    /\ parser' = [state |-> "resolved", p |-> parser.p, statements |-> parser.statements,
                  result |-> parser.result,
                  rs |-> ResolveStatements(
                            NewResolver(EmptyMap, EmptyMap),
                            [i \in DOMAIN parser.statements |->
                                AstStmt(parser.statements[i])])]
    /\ UNCHANGED <<tokens, scVars, vmVars, twVars, cmVars>>

InitResolve ==
    /\ VmIdle
    /\ TwIdle
    /\ ScIdle
    /\ CmIdle
    /\ tokens \in ShortLists \cup {ReturnTokens[name] : name \in DOMAIN ReturnTokens}
    /\ parser = [state |-> "parsing", p |-> NewParser, statements |-> <<>>,
                 result |-> [ok |-> FALSE, error |-> "none"]]

NextResolve == NextParse \/ ResolveParsed

SpecResolve == InitResolve /\ [][NextResolve]_vars

(***************************************************************************)
(* Claims about the VM                                                     *)
(***************************************************************************)
ArithOps == {OpAdd, OpSubtract, OpMultiply, OpDivide}
CmpOps == {OpGreater, OpLess}

\* the stack effect tabulated for each opcode other than Return
TabulatedEffect(op) ==
    CASE op \in {OpConstant, OpNil, OpTrue, OpFalse} -> 1
      [] op \in {OpEqual} \cup CmpOps \cup ArithOps -> -1
      [] op \in {OpNot, OpNegate} -> 0

\* C2: every opcode other than Return that Vm::run executes without a
\* runtime error (and without a panic) changes the stack depth by exactly
\* its tabulated effect: +1 for Constant/Nil/True/False, -1 for Equal,
\* Greater, Less, Add, Subtract, Multiply, Divide, 0 for Not and Negate.
C2_StackDiscipline ==
    /\ \A i \in DOMAIN executed :
          LET e == executed[i]
          IN  (e.outcome = "done" /\ e.op # OpReturn)
                  => e.after - e.before = TabulatedEffect(e.op)
    /\ (vmResult = "none" /\ executed # <<>>)
          => Len(stack) = executed[Len(executed)].after

\* C2's case: two pushes and a binary operator have executed
C2_Witness ==
    /\ Len(executed) = 3
    /\ executed[1].op = OpConstant /\ executed[2].op = OpConstant
    /\ executed[3].op \in ArithOps
    /\ \A i \in 1..3 : executed[i].outcome = "done"
    /\ Len(stack) = 1

\* the operands of e are on the stack and are not all Numbers
OperandTypeError(e) ==
    \/ /\ e.op \in ArithOps \cup CmpOps
       /\ Len(e.stack) >= 2
       /\ ~(IsNumber(e.stack[Len(e.stack)]) /\ IsNumber(e.stack[Len(e.stack) - 1]))
    \/ /\ e.op = OpNegate
       /\ Len(e.stack) >= 1
       /\ ~IsNumber(e.stack[Len(e.stack)])

OperandMessage(op) ==
    IF op = OpNegate THEN "Operand must be a number." ELSE "Operands must be numbers."

\* C3: when Add, Subtract, Multiply, Divide, Greater or Less executes while
\* the top two stack values are not both Numbers, or Negate while the top
\* value is not a Number, the VM reports the message with the line recorded
\* for that opcode while the operands are still on the stack, empties the
\* stack, and run returns the Runtime error: that instruction is the last
\* one executed.
C3_OperandError ==
    \A i \in DOMAIN executed :
        LET e == executed[i]
        IN  OperandTypeError(e) =>
                /\ e.outcome = "runtime"
                /\ i = Len(executed)
                /\ vmResult = "runtime"
                /\ stack = <<>>
                /\ ip = e.offset + 1
                /\ vmStderr = <<[message |-> OperandMessage(e.op),
                                 line |-> chunk.lines[e.offset + 1],
                                 stack |-> e.stack]>>
                /\ vmStdout = <<>>

\* C3's case: a binary operator met a Boolean below a Number on line 3
C3_Witness ==
    /\ Len(executed) = 3
    /\ executed[3].op \in ArithOps \cup CmpOps
    /\ OperandTypeError(executed[3])
    /\ IsNumber(executed[3].stack[2])
    /\ vmResult = "runtime"
    /\ vmStderr # <<>> /\ vmStderr[1].line = 3

(***************************************************************************)
(* Claims about the tree-walk interpreter, stated over the events of the   *)
(* last run                                                                *)
(***************************************************************************)
Events(kinds) == {i \in 1..Len(trace) : trace[i].e \in kinds}

\* the activation of the environment a reference names
ActOf(env) == envs[env].act

\* C1: a variable read or assignment that the resolver recorded at depth d
\* for name x finds, d enclosing links from the current environment, the
\* environment created for the scope the resolver found x in; it reads or
\* writes x there, and a read yields the value last defined or assigned to x
\* in that environment.  An expression absent from the side-table reads and
\* writes the globals.
C1_ResolvedDepth ==
    \A i \in Events({"read", "write"}) :
        LET ev == trace[i]
            home == IF ev.resolved THEN ev.hop ELSE GlobalsRef
        IN  /\ ev.resolved =>
                /\ ev.hop # NoEnv
                /\ envs[ev.hop].tag = scopeOf[ev.id]
                /\ ev.kind = "ok"
            /\ ev.kind = "ok" => ev.target = home
            /\ ev.kind = "runtime" =>
                /\ ~ev.resolved
                /\ ~LastWritten(written, ev.logLen, ActOf(GlobalsRef), ev.name).has
            /\ ev.kind \in {"ok", "runtime"}
            /\ (ev.e = "read" /\ ev.kind = "ok") =>
                LET w == LastWritten(written, ev.logLen, ActOf(home), ev.name)
                IN  w.has /\ ev.got = w.v
            /\ (ev.e = "write" /\ ev.kind = "ok") =>
                written[ev.logLen] = [act |-> ActOf(home), name |-> ev.name, v |-> ev.v]

\* a read resolved two scopes out passes by a nearer variable of the same
\* name, and an unresolved read passes by a block variable on its way to
\* the globals
C1_Witness ==
    /\ \E i \in Events({"read"}) :
        /\ trace[i].resolved /\ trace[i].depth = 2 /\ trace[i].kind = "ok"
        /\ trace[i].name \in DOMAIN envs[envs[trace[i].cur].enclosing].values
        /\ trace[i].got # envs[envs[trace[i].cur].enclosing].values[trace[i].name]
    /\ \E i \in Events({"write"}) :
        /\ trace[i].resolved /\ trace[i].depth = 2 /\ trace[i].kind = "ok"

\* C4: a return statement executed inside a user-function call ends the body
\* at once: no later statement of that call executes, the call takes the
\* returned value as its own (nil for a bare return, the instance in an
\* initializer), and the signal stops at that call: the next thing that
\* happens is the call's completion, and a run never ends on a return.
C4_ReturnEndsBody ==
    /\ lastRun.outcome # "return"
    /\ \A i \in Events({"return"}) :
        LET ev == trace[i]
        IN  ev.frame # 0 =>
            /\ \A j \in i + 1..Len(trace) :
                ~(trace[j].e = "exec" /\ trace[j].frame = ev.frame)
            /\ i < Len(trace)
            /\ trace[i + 1].e = "exit"
            /\ trace[i + 1].frame = ev.frame
            /\ trace[i + 1].kind = "ok"
            /\ ~trace[ev.frame].is_initializer => trace[i + 1].v = ev.v
            /\ (ev.bare /\ ~trace[ev.frame].is_initializer) => trace[i + 1].v = Nil
            /\ trace[ev.frame].is_initializer =>
                trace[i + 1].v = Instance(trace[ev.frame].this)

\* a return two blocks deep inside a loop of a function, with a value, and
\* a bare return, each followed by statements of the same body
C4_Witness ==
    /\ \E i \in Events({"return"}) :
        /\ trace[i].frame # 0 /\ ~trace[i].bare
        /\ envs[trace[i].env].tag.kind = "block"
        /\ envs[envs[trace[i].env].enclosing].tag.kind = "block"
        /\ trace[i + 1].e = "exit" /\ trace[i + 1].v = Number(2)
    /\ \E i \in Events({"return"}) :
        /\ trace[i].frame # 0 /\ trace[i].bare /\ trace[i + 1].v = Nil
    /\ lastRun.outcome = "ok"

\* C5: calling a class that has an init method, with as many arguments as
\* init has parameters, creates a new instance, runs init with this bound to
\* it and evaluates to that instance with the fields init assigned, whether
\* init falls off its end or executes a bare return; calling init on an
\* existing instance evaluates to that instance.
C5_InitializerYieldsInstance ==
    \A i \in Events({"callexpr"}) :
        LET ev == trace[i]
            span == ev.afterArgs + 1..i - 1
            sets == {j \in span : trace[j].e = "set" /\ trace[j].ref = ev.v.ref}
        IN  /\ ( /\ ev.calleeV.t = "class"
                 /\ "init" \in DOMAIN ev.calleeV.methods
                 /\ Len(ev.args) = Len(ev.calleeV.methods["init"].params)
                 /\ ev.kind # "runtime" ) =>
                /\ ev.kind = "ok"
                /\ ev.v = Instance(ev.instsAfterArgs + 1)
                /\ trace[ev.afterArgs + 1] = [e |-> "new", ref |-> ev.v.ref,
                                              class |-> ev.calleeV.sid]
                /\ trace[ev.afterArgs + 2].e = "call"
                /\ trace[ev.afterArgs + 2].is_initializer
                /\ trace[ev.afterArgs + 2].fn = ev.calleeV.methods["init"].sid
                /\ trace[ev.afterArgs + 2].this = ev.v.ref
                /\ trace[i - 1].e = "exit"
                /\ trace[i - 1].frame = ev.afterArgs + 2
                /\ DOMAIN ev.fields = {trace[j].name : j \in sets}
                /\ \A j \in sets :
                    (\A k \in sets : trace[k].name = trace[j].name => k <= j)
                        => ev.fields[trace[j].name] = trace[j].v
            /\ ( /\ ev.calleeV.t = "fn"
                 /\ ev.calleeV.is_initializer
                 /\ ev.kind = "ok" ) =>
                \E g \in 1..i :
                    /\ trace[g].e = "get"
                    /\ trace[g].id = ev.callee
                    /\ trace[g].v = ev.calleeV
                    /\ ev.v = Instance(trace[g].ref)

\* both a class call whose init returned early and one whose init fell off
\* its end are followed by a call of init on the instance
C5_Witness ==
    /\ \E i \in Events({"callexpr"}) :
        /\ trace[i].calleeV.t = "class" /\ trace[i].kind = "ok"
        /\ "init" \in DOMAIN trace[i].calleeV.methods
        /\ "x" \in DOMAIN trace[i].fields
    /\ \E i \in Events({"callexpr"}) :
        /\ trace[i].calleeV.t = "fn" /\ trace[i].calleeV.is_initializer
        /\ trace[i].kind = "ok" /\ trace[i].v.t = "inst"
    /\ \E i \in Events({"return"}) : trace[i].bare /\ trace[trace[i].frame].is_initializer

\* the method named name of the nearest class defining it on the superclass
\* chain that starts at class, as the class declarations built the chain
RECURSIVE FindOnChain(_, _)
FindOnChain(class, name) ==
    IF class.t # "class" THEN NoMethod
    ELSE IF name \in DOMAIN class.methods THEN class.methods[name]
    ELSE FindOnChain(class.superclass, name)

\* C6: obj.m, m not a field of obj, finds m in the methods of obj's class if
\* the class defines it, otherwise in the nearest ancestor on the superclass
\* chain that defines it, and raises "Undefined property 'm'." only when no
\* class on the chain defines m.
C6_MethodLookup ==
    \A i \in Events({"get"}) :
        LET ev == trace[i]
            found == FindOnChain(ev.class, ev.name)
        IN  ~ev.isField =>
            IF found.t = "fn"
            THEN /\ ev.kind = "ok"
                 /\ ev.v.t = "fn"
                 /\ ev.v.sid = found.sid
                 /\ ev.v.ctx.this = ev.ref
            ELSE /\ ev.kind = "runtime"
                 /\ ev.message = "Undefined property '" \o ev.name \o "'."

\* C7: super.m inside a method of a class B declared with superclass A
\* yields the method m looked up starting at A, the superclass of the class
\* that lexically contains the expression, bound to the current this, also
\* when the receiver is an instance of a subclass of B; a missing method
\* raises "Undefined property 'm'.".
C7_SuperLookup ==
    \A i \in Events({"super"}) :
        LET ev == trace[i]
            found == FindOnChain(ev.ctx.super, ev.method)
        IN  /\ ev.superclass = ev.ctx.super
            /\ IF found.t = "fn"
               THEN /\ ev.kind = "ok"
                    /\ ev.v.t = "fn"
                    /\ ev.v.sid = found.sid
                    /\ ev.object = Instance(ev.ctx.this)
                    /\ ev.v.ctx.this = ev.ctx.this
               ELSE /\ ev.kind = "runtime"
                    /\ ev.message = "Undefined property '" \o ev.method \o "'."

\* the environments reachable from env by enclosing links, env included
RECURSIVE Chain(_)
Chain(env) == IF env = NoEnv THEN {} ELSE {env} \cup Chain(envs[env].enclosing)

\* the exit event of the call whose call event is at position frame
ExitOf(frame) == CHOOSE j \in Events({"exit"}) : trace[j].frame = frame

\* C8: a function declared in a scope captures that scope's environment
\* itself, so a value assigned to a variable through one closure, or by the
\* scope's own code, is what every later read of that variable in the same
\* environment yields, whoever reads; every call creates an environment of
\* its own under the closure, and code running in a call reaches only that
\* environment, the blocks it opened inside it and the environments its
\* closure captured, never another call's.
C8_SharedEnvironment ==
    /\ \A d \in Events({"declare"}) : trace[d].closure = trace[d].env
    /\ \A f \in Events({"call"}) :
        LET x == trace[ExitOf(f)]
        IN  /\ \E j \in Events({"exit"}) : trace[j].frame = f
            /\ envs[x.env].enclosing = trace[f].closure
            /\ \A j \in Events({"exit"}) : trace[j].frame # f => trace[j].env # x.env
            /\ \A d \in Events({"declare"}) : d < f => trace[d].closure # x.env
    /\ \A i, j \in Events({"read", "write"}) :
        LET w == trace[i]
            r == trace[j]
        IN  ( /\ i < j /\ w.e = "write" /\ r.e = "read"
              /\ w.kind = "ok" /\ r.kind = "ok"
              /\ w.name = r.name /\ w.target = r.target
              /\ \A k \in w.logLen + 1..r.logLen :
                    ~(written[k].act = w.target /\ written[k].name = w.name) )
            => r.got = w.v
    /\ \A i \in Events({"read", "write"}) :
        LET ev == trace[i]
            own == trace[ExitOf(ev.frame)].env
        IN  (ev.frame # 0 /\ ev.kind = "ok") =>
                \/ ev.target \in Chain(own)
                \/ own \in Chain(ev.target)

\* two calls of one function have left two environments; a closure of the
\* second call assigned a captured variable, the scope's own code and a
\* sibling closure read the assigned value back, and a closure of the first
\* call still reads the first call's variable
C8_Witness ==
    \E f1, f2 \in Events({"call"}) :
        LET e1 == trace[ExitOf(f1)].env
            e2 == trace[ExitOf(f2)].env
        IN  /\ f1 < f2 /\ trace[f1].fn = trace[f2].fn /\ e1 # e2
            /\ \E i, j, k, l \in Events({"read", "write"}) :
                /\ i < j /\ j < k /\ k < l
                /\ trace[i].e = "write" /\ trace[i].target = e1
                /\ trace[i].frame \notin {0, f1}
                /\ trace[j].e = "read" /\ trace[j].target = e1
                /\ trace[j].frame = f1 /\ trace[j].got = trace[i].v
                /\ trace[k].e = "write" /\ trace[k].target = e2
                /\ trace[k].frame \notin {0, f2} /\ trace[k].name = trace[i].name
                /\ trace[l].e = "read" /\ trace[l].target = e1
                /\ trace[l].frame \notin {0, f1, trace[i].frame}
                /\ trace[l].name = trace[i].name
                /\ trace[l].got = trace[i].v /\ trace[l].got # trace[k].v

\* the leave event of the evaluation whose enter event is at position at
LeaveOf(at) == CHOOSE j \in Events({"leave"}) : trace[j].at = at

\* C9: a or b evaluates b exactly when a evaluated to nil or false, a and b
\* evaluates b exactly when a evaluated to something else; when b is not
\* evaluated nothing happens after a and the result is a's value, when it is
\* the result is b's value: the value itself, never a Boolean made from it.
C9_ShortCircuit ==
    \A i \in Events({"logical"}) :
        LET ev == trace[i]
            l == LeaveOf(ev.at + 1)
            left == trace[l].v
            falsey == left = Nil \/ left = Boolean(FALSE)
            wanted == IF ev.operator = "Or" THEN falsey ELSE ~falsey
            rights == {j \in l + 1..i - 1 : trace[j] = [e |-> "enter", id |-> ev.right]}
        IN  /\ ev.operator \in {"Or", "And"}
            /\ trace[ev.at + 1] = [e |-> "enter", id |-> ev.left]
            /\ trace[l].id = ev.left /\ trace[l].kind = "ok"
            /\ wanted <=> rights # {}
            /\ ~wanted => /\ i = l + 1
                          /\ ev.kind = "ok"
                          /\ ev.v = left
            /\ wanted => /\ rights = {l + 1}
                         /\ trace[i - 1].e = "leave"
                         /\ trace[i - 1].at = l + 1
                         /\ ev.kind = trace[i - 1].kind
                         /\ ev.kind = "ok" => ev.v = trace[i - 1].v
            /\ trace[i + 1].e = "leave"
            /\ trace[i + 1].at = ev.at
            /\ trace[i + 1].kind = ev.kind
            /\ trace[i + 1].v = ev.v

\* an or that stops at a left operand 0 and yields 0, not true, and an and
\* that goes on from 0 to its right operand, whose call assigns a variable,
\* and yields the right operand's 2
C9_Witness ==
    /\ \E i \in Events({"logical"}) :
        /\ trace[i].operator = "Or" /\ trace[i].v = Number(0)
        /\ trace[i - 1].e = "leave" /\ trace[i - 1].id = trace[i].left
    /\ \E i \in Events({"logical"}) :
        /\ trace[i].operator = "And" /\ trace[i].v = Number(2)
        /\ trace[i - 1].e = "leave" /\ trace[i - 1].id = trace[i].right
        /\ \E w \in Events({"write"}) :
            LeaveOf(trace[i].at + 1) < w /\ w < i /\ trace[w].kind = "ok"

\* the position of the leave event of argument k of the call expression at
\* event ev, the arguments being evaluated one right after the other
\* (k = 0: the callee)
RECURSIVE ArgLeave(_, _)
ArgLeave(ev, k) ==
    IF k = 0 THEN LeaveOf(ev.at + 1) ELSE LeaveOf(ArgLeave(ev, k - 1) + 1)

\* C10: a call expression evaluates its callee first, then its arguments
\* from left to right, each right after the one before; only then a callee
\* that is not callable raises "Can only call functions and classes.", and a
\* number of arguments other than the arity raises "Expected N arguments but
\* got M.": then nothing is called, no environment is created and no
\* variable is defined.
C10_CallOrder ==
    \A i \in Events({"callexpr"}) :
        LET ev == trace[i]
            n == Len(ev.arguments)
            callable == ev.calleeV.t \in {"fn", "class", "native"}
        IN  /\ trace[ev.at + 1] = [e |-> "enter", id |-> ev.callee]
            /\ trace[ArgLeave(ev, 0)].v = ev.calleeV
            /\ Len(ev.args) = n
            /\ \A k \in 1..n :
                /\ trace[ArgLeave(ev, k - 1) + 1] = [e |-> "enter", id |-> ev.arguments[k]]
                /\ trace[ArgLeave(ev, k)].id = ev.arguments[k]
                /\ trace[ArgLeave(ev, k)].v = ev.args[k]
            /\ ArgLeave(ev, n) = ev.afterArgs
            /\ ~callable =>
                /\ ev.kind = "runtime"
                /\ ev.message = "Can only call functions and classes."
                /\ i = ev.afterArgs + 1
            /\ (callable /\ n # Arity(ev.calleeV)) =>
                /\ ev.kind = "runtime"
                /\ ev.message = "Expected " \o ToString(Arity(ev.calleeV))
                                 \o " arguments but got " \o ToString(n) \o "."
                /\ i = ev.afterArgs + 1
                /\ ev.envsEnd = ev.envsAfterArgs
                /\ ev.writtenEnd = ev.writtenAfterArgs
            /\ (callable /\ n = Arity(ev.calleeV)) =>
                ~(ev.kind = "runtime" /\ i = ev.afterArgs + 1)

\* a function of two parameters called with one argument: the argument was
\* evaluated, assigning a variable on the way, and the call raised the
\* arity error without running the body
C10_Witness ==
    \E i \in Events({"callexpr"}) :
        /\ trace[i].calleeV.t = "fn" /\ Len(trace[i].calleeV.params) = 2
        /\ Len(trace[i].args) = 1
        /\ trace[i].message = "Expected 2 arguments but got 1."
        /\ \E w \in Events({"write"}) : trace[i].at < w /\ w < trace[i].afterArgs
        /\ lastRun.outcome = "runtime"

(***************************************************************************)
(* C11: a runtime error ends the run and leaves the interpreter usable     *)
(***************************************************************************)
\* the writes of this run to the global `name` that come before read event ev
GlobalWritesBefore(ev, name) ==
    {k \in (lastRun.before.logLen + 1)..ev.logLen :
        written[k].act = GlobalsRef /\ written[k].name = name}

\* C11: when a run ends in a runtime error, nothing is executed, evaluated,
\* written, allocated or printed after the point where the error arose except
\* the error's own message, the globals are what they were at that point, and
\* the interpreter's current environment is the globals again; the run that
\* follows on the same interpreter starts at top level, in the globals, and
\* what it reads of a global it has not written itself is the value the
\* earlier run left, or "Undefined variable" when that run left none.
C11_RuntimeErrorEndsRun ==
    /\ lastRun.outcome = "runtime" =>
          /\ lastRun.raised.at >= 0
          /\ \A i \in 1..Len(trace) :
                i > lastRun.raised.at =>
                    /\ trace[i].e \notin {"exec", "enter", "call", "declare", "new",
                                          "write", "set", "return"}
                    /\ trace[i].kind = "runtime"
          /\ Len(written) = lastRun.raised.logLen
          /\ Len(envs) = lastRun.raised.envs
          /\ envs[GlobalsRef].values = lastRun.raised.globals
          /\ Len(stdout) = lastRun.raised.printed + 1
          /\ environment = GlobalsRef
    /\ (lastRun.before.outcome = "runtime" /\ trace # <<>>) =>
          /\ lastRun.before.environment = GlobalsRef
          /\ trace[1].e = "exec" /\ trace[1].frame = 0 /\ trace[1].env = GlobalsRef
          /\ \A i \in Events({"read"}) :
                LET ev == trace[i]
                IN  (ev.target = GlobalsRef /\ GlobalWritesBefore(ev, ev.name) = {}) =>
                        IF ev.name \in DOMAIN lastRun.before.globals
                        THEN ev.kind = "ok" /\ ev.got = lastRun.before.globals[ev.name]
                        ELSE ev.kind = "runtime"

\* a run ended by an error raised three calls and a loop deep, after the loop
\* had written a global, is followed by a run that reads that global
C11_Witness ==
    /\ Len(runs) = 2
    /\ runs[1] = "ErrorLoop"
    /\ lastRun.before.outcome = "runtime"
    /\ lastRun.before.globals["count"] = Number(2)
    /\ lastRun.program = "After"
    /\ lastRun.outcome = "ok"
    /\ stdout = <<"kept", "inner", "1", "kept!">>

(***************************************************************************)
(* Claims about the scanners                                               *)
(***************************************************************************)
\* what each character of the source is part of, read from left to right:
\* "string" from an opening quote to its closing one, "comment" from two
\* slashes up to the end of the line, "code" otherwise; [class, then]
SourceClass[i \in 0..Len(source)] ==
    IF i = 0 THEN [class |-> "code", then |-> "code"]
    ELSE LET before == SourceClass[i - 1].then
             c == source[i]
         IN  CASE before = "string" ->
                    [class |-> "string", then |-> IF c = "\"" THEN "code" ELSE "string"]
               [] before = "comment" ->
                    IF c = "\n" THEN [class |-> "code", then |-> "code"]
                    ELSE [class |-> "comment", then |-> "comment"]
               [] OTHER ->
                    IF c = "\"" THEN [class |-> "string", then |-> "string"]
                    ELSE IF c = "/" /\ i < Len(source) /\ source[i + 1] = "/"
                    THEN [class |-> "comment", then |-> "comment"]
                    ELSE [class |-> "code", then |-> "code"]

Whitespace == {" ", "\r", "\t", "\n"}

\* the characters of the source that belong to a token
Kept(i) ==
    /\ SourceClass[i].class # "comment"
    /\ SourceClass[i].class = "code" => source[i] \notin Whitespace

RECURSIVE Stripped(_)
\* source[i..] without comments and without the whitespace outside strings
Stripped(i) ==
    IF i > Len(source) THEN <<>>
    ELSE (IF Kept(i) THEN <<source[i]>> ELSE <<>>) \o Stripped(i + 1)

RECURSIVE Lexemes(_, _)
\* the lexemes of toks[i..], concatenated
Lexemes(toks, i) ==
    IF i > Len(toks) THEN <<>> ELSE toks[i].lexeme \o Lexemes(toks, i + 1)

\* the newlines in source[1..i]
Newlines(i) == Cardinality({k \in 1..i : k <= Len(source) /\ source[k] = "\n"})

\* C12: when the tree-walk scanner has scanned a source and reported no error,
\* the lexemes of its tokens, concatenated in order, are the source without
\* its comments and its whitespace outside strings, and the only Eof token is
\* the last token
C12_ScannerRoundTrip ==
    (scanner # <<>> /\ scanner.done /\ scanner.errors = <<>>) =>
        /\ Lexemes(scanner.tokens, 1) = Stripped(1)
        /\ scanner.tokens[Len(scanner.tokens)].typ = "Eof"
        /\ \A i \in 1..(Len(scanner.tokens) - 1) : scanner.tokens[i].typ # "Eof"

\* the place of the first quote after place i of the source, 0 when there is none
NextQuote(i) ==
    LET quotes == {k \in (i + 1)..Len(source) : source[k] = "\""}
    IN  IF quotes = {} THEN 0 ELSE CHOOSE k \in quotes : \A j \in quotes : k <= j

\* the tree-walk scanner on the literal that the last scan_token began with
TwStringLiteral ==
    LET open == scanner.start + 1
        close == NextQuote(open)
        found == {i \in 1..Len(scanner.tokens) : scanner.tokens[i].start = scanner.start}
        errors == {i \in 1..Len(scanner.errors) : scanner.errors[i].start = scanner.start}
    IN  IF close # 0
        THEN /\ errors = {}
             /\ Cardinality(found) = 1
             /\ \A i \in found :
                    /\ scanner.tokens[i].typ = "String"
                    /\ scanner.tokens[i].literal
                           = [t |-> "String", value |-> SubSeq(source, open + 1, close - 1)]
                    /\ scanner.tokens[i].line = 1 + Newlines(close)
             /\ scanner.line = 1 + Newlines(close)
        ELSE /\ found = {}
             /\ Cardinality(errors) = 1
             /\ \A i \in errors : scanner.errors[i].message = "Unterminated string."
             /\ scanner.line = 1 + Newlines(Len(source))

\* the bytecode scanner on the literal that the last scan_token began with
BcStringLiteral ==
    LET t == bscanner.tokens[Len(bscanner.tokens)]
        open == t.start + 1
        close == NextQuote(open)
    IN  IF close # 0
        THEN /\ t.typ = "String"
             /\ t.lexeme = SubSeq(source, open + 1, close - 1)
             /\ t.end = close
             /\ t.line = 1 + Newlines(close)
        ELSE /\ t.typ = "Error"
             /\ t.lexeme = "Unterminated string."
             /\ t.line = 1 + Newlines(Len(source))

\* C13: a string literal whose closing quote is in the source, wherever it
\* stands, is scanned as one String token holding the text between the quotes,
\* with no error; "Unterminated string." is reported exactly when there is no
\* closing quote; the line counter has advanced by the newlines inside the
\* literal.  For the tree-walk scanner and for the bytecode scanner.
C13_StringLiteral ==
    /\ (/\ scanner # <<>>
        /\ scanner.start < scanner.current
        /\ source[scanner.start + 1] = "\"") => TwStringLiteral
    /\ (/\ bscanner # <<>>
        /\ bscanner.tokens # <<>>
        /\ bscanner.start < Len(source)
        /\ source[bscanner.start + 1] = "\"") => BcStringLiteral

RECURSIVE DigitsRun(_)
\* how many digits stand in the source from place i on
DigitsRun(i) ==
    IF i <= Len(source) /\ IsDigit(source[i]) THEN 1 + DigitsRun(i + 1) ELSE 0

\* the length of the longest text after start that is digits, or digits, a dot
\* and digits
LongestNumber(start) ==
    LET whole == DigitsRun(start + 1)
        dot == start + whole + 1
        fraction == IF dot <= Len(source) /\ source[dot] = "." THEN DigitsRun(dot + 1)
                    ELSE 0
    IN  IF fraction > 0 THEN whole + 1 + fraction ELSE whole

\* the Number tokens among toks are the longest numbers at their starts, and
\* a dot right after one is the next token
NumberTokens(toks, done) ==
    \A i \in 1..Len(toks) :
        toks[i].typ = "Number" =>
            LET start == toks[i].start
                end == start + LongestNumber(start)
            IN  /\ toks[i].lexeme = SubSeq(source, start + 1, end)
                /\ (end < Len(source) /\ source[end + 1] = ".") =>
                      /\ done => i < Len(toks)
                      /\ i < Len(toks) =>
                            /\ toks[i + 1].typ = "Dot"
                            /\ toks[i + 1].start = end

\* C14: in both scanners a Number token's lexeme is the longest text at the
\* token's start that is digits optionally followed by a dot and digits; a dot
\* that is not followed by a digit is not part of the token and is scanned
\* next, as a Dot token
C14_NumberLexeme ==
    /\ scanner # <<>> => NumberTokens(scanner.tokens, scanner.done)
    /\ bscanner # <<>> => NumberTokens(bscanner.tokens, bscanner.done)

\* C15: when the bytecode scanner has reached Eof, every character outside
\* the comments and the whitespace is part of a returned token and no other
\* character is (a comment yields no token, and what follows it is scanned),
\* every slash that does not begin a comment was returned as a Slash token,
\* and every token carries the line it ends on
C15_CommentsAndSlash ==
    (bscanner # <<>> /\ bscanner.done) =>
        LET found == bscanner.tokens
        IN  /\ \A i \in 1..Len(found) :
                  /\ \A k \in (found[i].start + 1)..found[i].end : Kept(k)
                  /\ found[i].line = 1 + Newlines(found[i].end)
            /\ \A k \in 1..Len(source) :
                  /\ (source[k] = "/" /\ SourceClass[k].class = "code") =>
                        \E i \in 1..Len(found) :
                            /\ found[i].typ = "Slash"
                            /\ found[i].start = k - 1 /\ found[i].end = k
                  /\ Kept(k) =>
                        \E i \in 1..Len(found) :
                            found[i].start < k /\ k <= found[i].end

(***************************************************************************)
(* Claims about the tree-walk parser                                       *)
(***************************************************************************)
\* the report that Parser::error makes for a token
ReportAt(token, message) ==
    [line |-> token.line,
     where |-> IF token.typ = "Eof" THEN " at end" ELSE " at '" \o token.lexeme \o "'",
     message |-> message]

\* what the claim asks of one `=`, by the kind of its left side
AssignmentBuilt(p, a) ==
    \* the value takes every `=` that follows it: assignment nests to the right
    /\ tokens[a.end + 1].typ # "Equal"
    /\ CASE a.target.k = "Variable" ->
              /\ a.ok
              /\ a.node = [k |-> "Assign", name |-> a.target.name, value |-> a.value]
         [] a.target.k = "Get" ->
              /\ a.ok
              /\ a.node = [k |-> "Set", object |-> a.target.object, name |-> a.target.name,
                           value |-> a.value]
         [] OTHER ->
              /\ ~a.ok
              /\ a.reports > 0
              /\ p.reported[a.reports]
                     = ReportAt(tokens[a.equals + 1], "Invalid assignment target.")

\* C16: every `=` that the parser handled took as its value the whole
\* assignment to its right (a = b = c is a = (b = c)), and it built Assign
\* when the left side was a Variable, Set when it was a Get, and for any
\* other left side it reported "Invalid assignment target." at the `=` token
C16_AssignmentTarget ==
    parser # <<>> =>
        /\ \A i \in 1..Len(parser.p.assigns) : AssignmentBuilt(parser.p, parser.p.assigns[i])
        /\ (parser.state = "returned" /\ tokens = SampleTokens.ChainedAssign \o <<Eof>>) =>
              parser.result
                  = [ok |-> TRUE,
                     statements |->
                        <<[k |-> "Expression",
                           expr |-> [k |-> "Assign", name |-> Ident("a"),
                                     value |-> [k |-> "Assign", name |-> Ident("b"),
                                                value |-> [k |-> "Variable",
                                                           name |-> Ident("c")]]]]>>]

\* C17: when parse has returned and the parser reported an error on the way,
\* be it the one for more than 255 arguments or parameters, the result is an
\* error and not a statement list
C17_ReportedErrorFailsParse ==
    (parser # <<>> /\ parser.state = "returned" /\ parser.p.reported # <<>>) =>
        ~parser.result.ok

Depth(s, i) ==
    Cardinality({k \in 1..(i - 1) : s[k] = "("}) - Cardinality({k \in 1..(i - 1) : s[k] = ")"})

\* the binary operators of ops outside parentheses: an operator sign is binary
\* when an operand ends right before it
BinaryAt(s, ops) ==
    {i \in 2..Len(s) : /\ s[i] \in ops
                       /\ Depth(s, i) = 0
                       /\ IsDigit(s[i - 1]) \/ s[i - 1] = ")"}

Last(S) == CHOOSE i \in S : \A j \in S : j <= i

\* the position of the root operator of s, 0 if s has none
RootAt(s) ==
    IF BinaryAt(s, {"+", "-"}) # {} THEN Last(BinaryAt(s, {"+", "-"}))
    ELSE IF BinaryAt(s, {"*", "/"}) # {} THEN Last(BinaryAt(s, {"*", "/"}))
    ELSE 0

RECURSIVE WellFormed(_)
WellFormed(s) ==
    IF s = <<>> THEN FALSE
    ELSE IF RootAt(s) # 0
    THEN WellFormed(SubSeq(s, 1, RootAt(s) - 1)) /\ WellFormed(SubSeq(s, RootAt(s) + 1, Len(s)))
    ELSE IF s[1] = "-" THEN WellFormed(Tail(s))
    ELSE IF s[1] = "(" THEN s[Len(s)] = ")" /\ WellFormed(SubSeq(s, 2, Len(s) - 1))
    ELSE \A i \in 1..Len(s) : IsDigit(s[i])

BinaryOpCode(c) ==
    CASE c = "+" -> OpAdd [] c = "-" -> OpSubtract [] c = "*" -> OpMultiply [] c = "/" -> OpDivide

\* the postfix order of the tree of a well-formed s: Constant with the
\* literal's value, or an opcode
RECURSIVE Postfix(_)
Postfix(s) ==
    IF RootAt(s) # 0
    THEN Postfix(SubSeq(s, 1, RootAt(s) - 1)) \o Postfix(SubSeq(s, RootAt(s) + 1, Len(s)))
             \o <<[op |-> BinaryOpCode(s[RootAt(s)])]>>
    ELSE IF s[1] = "-" THEN Postfix(Tail(s)) \o <<[op |-> OpNegate]>>
    ELSE IF s[1] = "(" THEN Postfix(SubSeq(s, 2, Len(s) - 1))
    ELSE <<[op |-> OpConstant, value |-> ParseDouble(s)]>>

\* the instructions of a chunk from offset on (0-based), a Constant with the
\* value its operand byte names in the pool
RECURSIVE Decoded(_, _)
Decoded(c, offset) ==
    IF offset >= Len(c.code) THEN <<>>
    ELSE IF c.code[offset + 1] = OpConstant
    THEN <<[op |-> OpConstant, value |-> c.constants[c.code[offset + 2] + 1]]>>
             \o Decoded(c, offset + 2)
    ELSE <<[op |-> c.code[offset + 1]]>> \o Decoded(c, offset + 1)

\* C19: for an expression of number literals, unary minus, + - * / and
\* parentheses, compile emits the postfix order of the tree in which * and /
\* bind tighter than + and -, equal precedence groups to the left, unary
\* minus binds tightest and parentheses override, followed by Return
C19_PostfixOrder ==
    (compiler # <<>> /\ compiler.state = "returned" /\ Len(source) <= MaxExpr
        /\ WellFormed(source)) =>
        Decoded(compiler.c.chunk, 0) = Postfix(source) \o <<[op |-> OpReturn]>>

\* C20: for every number literal compiled, however many there are, the byte
\* after its Constant opcode is the index at which add_constant stored the
\* literal's value, the pool holds that value there (so the instruction
\* pushes it), and every index of the pool fits in one byte
C20_ConstantIndex ==
    compiler # <<>> =>
        /\ \A i \in 1..Len(compiler.c.literals) :
              /\ compiler.c.chunk.code[compiler.c.literals[i].offset + 1] = OpConstant
              /\ compiler.c.chunk.code[compiler.c.literals[i].offset + 2]
                     = compiler.c.literals[i].stored
              /\ compiler.c.chunk.constants[
                     compiler.c.chunk.code[compiler.c.literals[i].offset + 2] + 1]
                     = compiler.c.literals[i].value
        /\ Len(compiler.c.chunk.constants) <= PoolSize

(***************************************************************************)
(* Claims about Vm::interpret                                              *)
(***************************************************************************)
Range(s) == {s[i] : i \in DOMAIN s}

\* compile has returned to Vm::interpret, which has not yet acted on it
CompileReturned ==
    compiler # <<>> /\ compiler.state = "returned" /\ vmResult = "compiling"

\* C21: when compile reports an error, Vm::interpret returns the Compile
\* error, executes no instruction, leaves the stack as it was and prints no
\* value; compile returns false exactly when error_at reported at least one
\* error
C21_CompileErrorRunsNothing ==
    /\ [](compiler # <<>> /\ compiler.state = "returned"
             => (compiler.result <=> compiler.c.errors = <<>>))
    /\ [](vmResult = "compile"
             => compiler.c.errors # <<>> /\ executed = <<>> /\ vmStdout = <<>>)
    /\ [][(CompileReturned /\ compiler.c.errors # <<>>)
             => (vmResult' = "compile" /\ stack' = stack /\ ip' = ip
                    /\ executed' = <<>> /\ vmStdout' = <<>>)]_vars
    /\ [][vmResult' \in {"compiling", "compile"} => stack' = stack]_vars

\* C21's case: a line with a compile error has been interpreted after a
\* line that ran
C21_Witness ==
    /\ vmResult = "compile"
    /\ "ok" \in Range(repl)
    /\ compiler.c.errors # <<>>

\* the code offsets that hold the operand of a Constant instruction
OperandOffsets(c) == {c.literals[k].offset + 1 : k \in 1..Len(c.literals)}

\* C22: Return pops the top of the stack and prints it when the stack is not
\* empty, prints nothing when it is empty, and ends the run with success
\* without executing any later byte; every chunk that compile fills ends with
\* a Return opcode and holds no other Return instruction
C22_ReturnEndsRun ==
    /\ \A i \in DOMAIN executed :
          executed[i].op = OpReturn =>
              /\ i = Len(executed)
              /\ vmResult = "ok"
              /\ ip = executed[i].offset + 1
              /\ IF executed[i].stack = <<>>
                 THEN vmStdout = <<>> /\ stack = <<>>
                 ELSE /\ vmStdout = <<executed[i].stack[Len(executed[i].stack)]>>
                      /\ stack = SubSeq(executed[i].stack, 1, Len(executed[i].stack) - 1)
    /\ vmResult = "ok" => executed # <<>> /\ executed[Len(executed)].op = OpReturn
    /\ (compiler # <<>> /\ compiler.state = "returned" /\ ~compiler.c.panicked) =>
          /\ compiler.c.chunk.code # <<>>
          /\ compiler.c.chunk.code[Len(compiler.c.chunk.code)] = OpReturn
          /\ (Len(compiler.c.chunk.code) - 1) \notin OperandOffsets(compiler.c)
          /\ \A o \in 0..(Len(compiler.c.chunk.code) - 2) :
                compiler.c.chunk.code[o + 1] = OpReturn => o \in OperandOffsets(compiler.c)

\* C22's case: the Return of a compiled chunk, one of whose operand bytes
\* equals the Return opcode, has popped and printed the one value
C22_Witness ==
    /\ vmResult = "ok"
    /\ vmStdout # <<>>
    /\ stack = <<>>
    /\ compiler # <<>>
    /\ \E o \in OperandOffsets(compiler.c) : chunk.code[o + 1] = OpReturn

\* a chunk that compile filled is about to run its first instruction
ChunkStarts == compiler # <<>> /\ vmResult = "none" /\ executed = <<>>

\* C28: for every source that compiles without error the stack holds exactly
\* one value when the final Return executes; after any sequence of calls of
\* interpret, ended by success, by a compile error or by a runtime error,
\* the stack is empty and ip is 0 when the next chunk starts running
C28_StackAcrossCalls ==
    /\ compiler # <<>> =>
          \A i \in DOMAIN executed :
              executed[i].op = OpReturn => Len(executed[i].stack) = 1
    /\ ChunkStarts => stack = <<>> /\ ip = 0
    /\ (compiler # <<>> /\ vmResult \in {"ok", "runtime", "compile", "compiling"})
          => stack = <<>>

\* C28's case: a chunk starts running on a Vm whose earlier calls ended with
\* a runtime error and with a compile error
C28_Witness ==
    /\ ChunkStarts
    /\ "runtime" \in Range(repl)
    /\ "compile" \in Range(repl)

(***************************************************************************)
(* Claims about Chunk                                                      *)
(***************************************************************************)
\* the calls of write among a chunk's calls
Writes(log) == SelectSeq(log, LAMBDA call : call.op = "write")

\* code and lines are what the calls of write passed, in their order
LinesFollowCode(c, passed) ==
    /\ Len(c.code) = Len(c.lines)
    /\ Len(c.code) = Len(passed)
    /\ \A i \in 1..Len(passed) :
          c.code[i] = passed[i].byte /\ c.lines[i] = passed[i].line

\* C26: after any sequence of calls of Chunk::write and Chunk::add_constant,
\* and after every compile, code and lines have the same length and
\* lines[i] is the line that was passed with code[i]; add_constant changes
\* neither
C26_LinesParallelCode ==
    /\ [](compiler = <<>> => LinesFollowCode(chunk, Writes(calls)))
    /\ [](compiler # <<>> => LinesFollowCode(compiler.c.chunk, compiler.c.emitted))
    /\ [][(calls' # calls /\ calls'[Len(calls')].op = "add_constant")
             => (chunk'.code = chunk.code /\ chunk'.lines = chunk.lines)]_vars

\* C26's case: a constant was added between two writes, the second with a
\* smaller line than the first
C26_Witness ==
    /\ Len(calls) >= 3
    /\ calls[1].op = "write"
    /\ calls[2].op = "add_constant"
    /\ calls[3].op = "write"
    /\ calls[1].line > calls[3].line

(***************************************************************************)
(* Claims about the compiler's rule table                                  *)
(***************************************************************************)
\* the code that the claimed rules give the three lines
OperatorLines ==
    (<<"!", "t", "r", "u", "e", "\n">> :> <<OpTrue, OpNot, OpReturn>>)
    @@ (<<"1", "<", "2", "\n">> :> <<OpConstant, 0, OpConstant, 1, OpLess, OpReturn>>)
    @@ (<<"1", "=", "=", "1", "\n">> :> <<OpConstant, 0, OpConstant, 1, OpEqual, OpReturn>>)

\* C29: get_rule gives ! a prefix rule that emits Not after its operand and
\* == != < <= > >= infix rules that emit Equal, Greater or Less, so that
\* !true, 1 < 2 and 1 == 1 compile without error into code that applies the
\* operator's opcode
C29_OperatorsCompile ==
    (compiler # <<>> /\ compiler.state = "returned" /\ source \in DOMAIN OperatorLines)
        => /\ compiler.result
           /\ compiler.c.errors = <<>>
           /\ compiler.c.chunk.code = OperatorLines[source]

(***************************************************************************)
(* Claims about equality in the tree-walk interpreter                      *)
(***************************************************************************)
\* C30: == is reflexive on object values (a class, a function and a
\* variable holding an instance each equal themselves), distinct instances
\* and distinct callables are unequal, and != is the negation of ==
C30_EqualityOnObjects ==
    lastRun.program = "Equals" =>
        stdout = <<"true", "true", "true", "false", "false", "false",
                   "false", "true", "false">>

(***************************************************************************)
(* Claims about properties and bound methods                               *)
(***************************************************************************)
\* C27: a field takes precedence over a method of the same name; a method
\* read from obj is bound to obj, and stays so when it is stored in a
\* variable or in a field of another instance and called later, after
\* methods of other instances were bound: its body reads and writes the
\* fields of obj
C27_BoundMethods ==
    lastRun.program = "Bound" =>
        /\ lastRun.outcome = "ok"
        /\ stdout = <<"a", "b", "a", "a2", "b", "a2", "field", "method">>

\* C27's case: the program has run
C27_Witness == lastRun.program = "Bound" /\ Len(stdout) = 8

(***************************************************************************)
(* Claims about the resolver                                               *)
(***************************************************************************)
ThisOutside == "Can't use 'this' outside of a class."
SuperOutside == "Can't use 'super' outside of a class."
SuperNoSuperclass == "Can't use 'super' in a class with no superclass."

\* C24: the resolver reports an error and sets had_error for every this
\* outside a class body and every super outside a class declared with a
\* superclass, and for none inside methods, or functions nested in methods,
\* of such a class; after a class declaration the class context is the one
\* before it, so that this in a function after the class is reported again
C24_ThisAndSuper ==
    /\ lastRun.program = "ThisSuper" =>
          /\ lastRun.outcome = "resolve"
          /\ stdout = <<ThisOutside, ThisOutside, ThisOutside, SuperNoSuperclass,
                        SuperOutside, SuperOutside>>
    /\ lastRun.program = "ThisSuperOk" =>
          lastRun.outcome = "ok" /\ stdout = <<"resolved">>

\* C24's case: the program with this after a class has been resolved
C24_Witness ==
    /\ lastRun.program = "ThisSuper"
    /\ Len(stdout) > 2
    /\ stdout[3] = ThisOutside

AlreadyDeclared == "Already a variable with this name in this scope."

\* C25: the resolver reports "Already a variable with this name in this
\* scope." and sets had_error exactly when a variable, function, class or
\* parameter name is declared a second time in the same block or function
\* scope; a second declaration at global level, or one in a nested scope
\* that shadows an outer one, reports nothing
C25_Redeclaration ==
    /\ lastRun.program = "Redeclare" =>
          /\ lastRun.outcome = "resolve"
          /\ stdout = [i \in 1..6 |-> AlreadyDeclared]
    /\ lastRun.program = "RedeclareOk" =>
          lastRun.outcome = "ok" /\ stdout = <<"2">>

\* C25's case: the program with the six second declarations has been
\* resolved
C25_Witness ==
    /\ lastRun.program = "Redeclare"
    /\ lastRun.outcome = "resolve"
    /\ stdout # <<>>

TopLevelReturn == "Can't return from top-level code."
InitializerReturn == "Can't return a value from an initializer."

\* what the resolver is to report for each program of ReturnTokens
ReturnReports ==
    [Top |-> <<TopLevelReturn>>,
     TopBare |-> <<TopLevelReturn>>,
     TopInBlock |-> <<TopLevelReturn>>,
     InFunction |-> <<>>,
     InFunctionBare |-> <<>>,
     InitValue |-> <<InitializerReturn>>,
     InitBare |-> <<>>,
     InitNested |-> <<>>]

\* C23: the resolver reports "Can't return from top-level code." for every
\* return outside a function or method, "Can't return a value from an
\* initializer." for every return with a value directly inside a method
\* named init, and neither for a bare return in init nor for a return with
\* a value in a function nested in init; each report sets had_error
C23_ReturnReports ==
    \A name \in DOMAIN ReturnTokens :
        (parser # <<>> /\ parser.state = "resolved" /\ tokens = ReturnTokens[name])
            => /\ parser.rs.errors = ReturnReports[name]
               /\ parser.rs.had_error <=> ReturnReports[name] # <<>>

====
